---- MODULE Spec2Model ----
(***************************************************************************)
(* The connection registry of the chat backend and its three writers:      *)
(* the gateway $connect / $disconnect handlers (lambdas/ws_connect.rs,     *)
(* lambdas/ws_disconnect.rs), the development socket server (main.rs) and  *)
(* the stream-triggered broadcaster (lambdas/ws_broadcast.rs).  Every      *)
(* store call and every push is one step, so the handlers interleave at    *)
(* their await points.  What a handler answers (status code, metric) is    *)
(* written to `out` by the step that ends it and is gone with the next     *)
(* step of anyone: `out` is the observable effect of the last step.        *)
(***************************************************************************)
EXTENDS Integers, Sequences, FiniteSets, TLC

\* ------------------------------------------------------------ bounds
MaxConns == 3       \* gateway connections of one room in the fan-out
MaxBatch == 2       \* records in one stream batch

\* ------------------------------------------------------------ values
GwIds  == {<<"gw", i>> : i \in 1..MaxConns}
LiveGwIds == {<<"gw", 1>>}              \* the one that comes and goes in Spec
DevIds == {<<"dev", 1>>}
NoId   == <<"none", 0>>

NoParam    == "-"                       \* an absent query parameter or attribute
Rooms      == {"general", "r1"}

\* the query string parameters of a connect request
Query(room_id, userId, username) ==
  [room_id |-> room_id, userId |-> userId, username |-> username]

NoQuery    == Query(NoParam, NoParam, NoParam)
RoomParams == {NoQuery, Query("r1", "u1", "bob")}

\* status codes of the handlers' responses
StatusOk       == 200
StatusError    == 500
StatusNotFound == 404
StatusGone     == 410

\* the registry's time to live: 60 * 60 * 24 seconds, and the clock's unit
DaySeconds  == 86400
MsPerSecond == 1000

VARIABLES
  registry,     \* the connections table: connection_id -> item
  devFeature,   \* whether the broadcaster was built with the "dev" feature
  gw,           \* per gateway id: position of its $connect invocation
  disc,         \* per gateway id: its $disconnect invocation
  dev,          \* per dev id: its socket task in the development server
  out,          \* the response and metric of the handler the last step ended
  bpc,          \* broadcaster: position in function_handler / process_record
  nrecords,     \* broadcaster: event.records.len()
  idx,          \* broadcaster: index of the record the for loop has taken
  processed,    \* broadcaster: indices handed to process_record, in order
  results,      \* broadcaster: per processed record "ok" | "skipped" | "err"
  status,       \* broadcaster: status_code of the response (0: none yet)
  ev,           \* broadcaster: locals of the running process_record
  first,        \* what the first process_record of a batch left behind (history)
  roomsTable,   \* the rooms table: id -> item
  messagesTable,\* the messages table: the set of its items
  clock,        \* Utc::now(), in milliseconds
  nextId,       \* the messages ids drawn so far (Uuid::new_v4), as a counter
  post,         \* per caller: its post_message_handler call
  rout,         \* the answer of the REST handler the last step ended
  fate,         \* what each connection's sink and delete answer, where fixed
  push          \* dev server: the dev_conn_send_handler call in flight, or the last

vars == <<registry, devFeature, gw, disc, dev, out, bpc, nrecords, idx,
          processed, results, status, ev, first,
          roomsTable, messagesTable, clock, nextId, post, rout, fate, push>>

store   == <<roomsTable, messagesTable, clock, nextId, post, rout>>
sockets == <<registry, devFeature, gw, disc, dev, out, bpc, nrecords, idx,
             processed, results, status, ev, fate, push>>

lifecycle   == <<gw, disc, dev>>
broadcaster == <<bpc, nrecords, idx, processed, results, status, ev>>
invocation  == <<nrecords, idx, processed, results, status>>

\* ------------------------------------------------------------ the store
Put(reg, c, item) ==
  [x \in DOMAIN reg \cup {c} |-> IF x = c THEN item ELSE reg[x]]

\* a delete that empties the table
DeleteAll(reg, c) == <<>>

\* a delete that leaves the item where it is
DeleteNothing(reg, c) == reg

Delete(reg, c) ==
  [x \in DOMAIN reg \ {c} |-> reg[x]]

\* a scan of the table in place of the query
QueryAll(reg, room) == reg

\* the room-index query: the items whose room_id is the key
QueryRoom(reg, room) ==
  [x \in {c \in DOMAIN reg : reg[c].room_id = room} |-> reg[x]]

\* ------------------------------------------------------------ metrics
ConnectionEvent(event_type, room_id) ==
  [name |-> "ConnectionEvents", kind |-> event_type, room |-> room_id]

ErrorCount(metric_name, room_id) ==
  [name |-> metric_name, kind |-> "DatabaseError", room |-> room_id]

NoMetric == [name |-> "-", kind |-> "-", room |-> "-"]

\* a helper that prints the message metrics twice
MessageSentTwice(room_id) ==
  <<[name |-> "MessagesPosted", room |-> room_id, value |-> 1],
    [name |-> "MessageLength", room |-> room_id, value |-> 1],
    [name |-> "MessagesPosted", room |-> room_id, value |-> 1],
    [name |-> "MessageLength", room |-> room_id, value |-> 1]>>

\* emit_message_sent: the count and the length of one message
MessageSent(room_id) ==
  <<[name |-> "MessagesPosted", room |-> room_id, value |-> 1],
    [name |-> "MessageLength", room |-> room_id, value |-> 1]>>

\* the broadcast metrics with the two counts taken for each other
MessageBroadcastSwapped(room_id, connection_count, successful_sends) ==
  <<[name |-> "BroadcastAttempts", room |-> room_id, value |-> successful_sends],
    [name |-> "BroadcastSuccesses", room |-> room_id, value |-> connection_count],
    [name |-> "BroadcastFailures", room |-> room_id,
     value |-> successful_sends - connection_count]>>

MessageBroadcast(room_id, connection_count, successful_sends) ==
  <<[name |-> "BroadcastAttempts", room |-> room_id, value |-> connection_count],
    [name |-> "BroadcastSuccesses", room |-> room_id, value |-> successful_sends],
    [name |-> "BroadcastFailures", room |-> room_id,
     value |-> connection_count - successful_sends]>>

\* no answer is fixed in advance
NoFate == [push |-> <<>>, del |-> {}]

\* no call of the push endpoint yet
NoPush ==
  [pc |-> "idle",                     \* "send": the handler holds what it looked up
   id |-> NoId,                       \* the connection id of the path
   conn |-> NoId,                     \* the registry item the broadcaster posts for
   sender |-> FALSE,                  \* whether the sender map had an entry
   socket |-> "-",                    \* where the socket task was at the lookup
   status |-> 0]                      \* the status code answered

\* nothing ended with the last step
NoOut ==
  [handler |-> "-", id |-> NoId,
   store |-> "-",                     \* how the handler's put_item / delete_item ended
   lookup |-> "-",                    \* disconnect: how its get_item ended
   status |-> 0,                      \* status_code of the response
   accepted |-> FALSE,                \* dev server: the socket task serves the socket
   query |-> NoQuery,                 \* connect: the request's query parameters
   cause |-> "-",                     \* dev server: why the socket loop ended
   metric |-> NoMetric]

\* ------------------------------------------------------------ connect
RoomOrDefault(p) == IF p = NoParam THEN "general" ELSE p

\* Utc::now().timestamp_millis()
Now(t) == t

\* Option::unwrap_or on an identity parameter
OrDefault(p, placeholder) == IF p = NoParam THEN placeholder ELSE p

\* a time to live that keeps the milliseconds of the clock
TtlMillis(now) == now + DaySeconds

\* now / 1000 + (60 * 60 * 24): the clock is never negative, so the integer
\* division of the code and \div agree
Ttl(now) == now \div MsPerSecond + DaySeconds

\* a gateway item that takes the development placeholders
GatewayItemAsDev(c, query, now) ==
  [connection_id |-> c,
   room_id |-> RoomOrDefault(query.room_id),
   user_id |-> OrDefault(query.userId, "dev-user"),
   username |-> OrDefault(query.username, "Developer"),
   connected_at |-> now, transport |-> "apigw", push_url |-> NoId,
   ttl |-> Ttl(now)]

\* the item of ws_connect.rs; push_url is NoId where the item has none
GatewayItem(c, query, now) ==
  [connection_id |-> c,
   room_id |-> RoomOrDefault(query.room_id),
   user_id |-> OrDefault(query.userId, "anon"),
   username |-> OrDefault(query.username, "anon"),
   connected_at |-> now, transport |-> "apigw", push_url |-> NoId,
   ttl |-> Ttl(now)]

\* a connect that attributes its metric to no room
ConnectResponseUnattributed(putOk, room_id) ==
  IF putOk
    THEN [status |-> StatusOk, metric |-> ConnectionEvent("connect", "unknown")]
    ELSE [status |-> StatusError, metric |-> ErrorCount("ConnectionErrors", room_id)]

\* the two arms of the match on put_item's result
ConnectResponse(putOk, room_id) ==
  IF putOk
    THEN [status |-> StatusOk, metric |-> ConnectionEvent("connect", room_id)]
    ELSE [status |-> StatusError, metric |-> ErrorCount("ConnectionErrors", room_id)]

\* ids put into the registry while a process_record is past its query
LateJoin(e, pc, c, putOk) ==
  IF putOk /\ pc \in {"send", "push", "prune"} THEN [e EXCEPT !.late = @ \cup {c}] ELSE e

\* a gateway that hands out a connection id again
FreshAlways(c) == TRUE

\* the gateway gives every connection an id of its own: a $connect comes once per id
Fresh(c) == gw[c] = "new"

\* lambdas/ws_connect.rs function_handler: one put_item, then metric and response
WsConnect(c, roomParam, putOk) ==
  /\ Fresh(c)
  /\ registry' = IF putOk THEN Put(registry, c, GatewayItem(c, roomParam, Now(clock)))
                           ELSE registry
  /\ gw' = [gw EXCEPT ![c] = "done"]
  /\ LET r == ConnectResponse(putOk, RoomOrDefault(roomParam.room_id)) IN
       out' = [NoOut EXCEPT !.handler = "connect", !.id = c, !.query = roomParam,
                            !.store = IF putOk THEN "ok" ELSE "err",
                            !.status = r.status, !.metric = r.metric]
  /\ ev' = LateJoin(ev, bpc, c, putOk)
  /\ UNCHANGED <<store, first, fate, push, devFeature, disc, dev, bpc, invocation>>

\* ------------------------------------------------------------ disconnect
\* a lookup that falls back to the default room of connect
LookupRoomOrGeneral(reg, c, getOk) ==
  IF getOk /\ c \in DOMAIN reg THEN reg[c].room_id ELSE "general"

\* the room_id the handler recovers from get_item
LookupRoom(reg, c, getOk) ==
  IF getOk /\ c \in DOMAIN reg THEN reg[c].room_id ELSE "unknown"

LookupKind(reg, c, getOk) ==
  IF ~getOk THEN "err" ELSE IF c \in DOMAIN reg THEN "found" ELSE "absent"

\* lambdas/ws_disconnect.rs function_handler, first await: get_item
WsDisconnectLookup(c, getOk) ==
  /\ disc[c].pc = "idle"
  /\ disc' = [disc EXCEPT ![c] = [pc |-> "delete",
                                  lookup |-> LookupKind(registry, c, getOk),
                                  room |-> LookupRoom(registry, c, getOk)]]
  /\ out' = NoOut
  /\ UNCHANGED <<store, first, fate, push, registry, devFeature, gw, dev, broadcaster>>

\* a disconnect that surfaces a failed delete
DisconnectResponseSurfacing(delOk, room_id) ==
  IF delOk
    THEN [status |-> StatusOk, metric |-> ConnectionEvent("disconnect", room_id)]
    ELSE [status |-> StatusError, metric |-> ErrorCount("DisconnectionErrors", room_id)]

\* a disconnect that prints its lifecycle metric whatever the delete returned
DisconnectResponseMetricAlways(delOk, room_id) ==
  [status |-> StatusOk, metric |-> ConnectionEvent("disconnect", room_id)]

\* the two arms of the match on delete_item's result
DisconnectResponse(delOk, room_id) ==
  IF delOk
    THEN [status |-> StatusOk, metric |-> ConnectionEvent("disconnect", room_id)]
    ELSE [status |-> StatusOk, metric |-> ErrorCount("DisconnectionErrors", room_id)]

\* lambdas/ws_disconnect.rs function_handler, second await: delete_item
WsDisconnectDelete(c, delOk) ==
  /\ disc[c].pc = "delete"
  /\ registry' = IF delOk THEN Delete(registry, c) ELSE registry
  /\ disc' = [disc EXCEPT ![c] = [pc |-> "done", lookup |-> "-", room |-> "-"]]
  /\ LET r == DisconnectResponse(delOk, disc[c].room) IN
       out' = [NoOut EXCEPT !.handler = "disconnect", !.id = c,
                            !.store = IF delOk THEN "ok" ELSE "err",
                            !.lookup = disc[c].lookup,
                            !.status = r.status, !.metric = r.metric]
  /\ UNCHANGED <<store, first, fate, push, devFeature, gw, dev, broadcaster>>

\* ------------------------------------------------------------ dev server
\* the item of handle_websocket; push_url names the connection the url ends in
DevItem(d, query, now) ==
  [connection_id |-> d,
   room_id |-> RoomOrDefault(query.room_id),
   user_id |-> OrDefault(query.userId, "dev-user"),
   username |-> OrDefault(query.username, "Developer"),
   connected_at |-> now, transport |-> "dev", push_url |-> d,
   ttl |-> Ttl(now)]

\* a socket task that gives up when its registry write failed
AfterDevWriteOrClose(putOk) == IF putOk THEN "open" ELSE "closed"

\* where the socket task goes after its registry write: into the socket loop
AfterDevWrite(putOk) == "open"

\* main.rs websocket_handler and handle_websocket, up to the socket loop
DevConnect(d, roomParam, putOk) ==
  /\ dev[d] = "new"
  /\ registry' = IF putOk THEN Put(registry, d, DevItem(d, roomParam, Now(clock)))
                           ELSE registry
  /\ dev' = [dev EXCEPT ![d] = AfterDevWrite(putOk)]
  /\ out' = [NoOut EXCEPT !.handler = "devconnect", !.id = d, !.query = roomParam,
                          !.store = IF putOk THEN "ok" ELSE "err",
                          !.accepted = (AfterDevWrite(putOk) = "open")]
  /\ ev' = LateJoin(ev, bpc, d, putOk)
  /\ UNCHANGED <<store, first, fate, push, devFeature, gw, disc, bpc, invocation>>

\* the ways the socket loop of handle_websocket ends
LoopEnds == {"client close", "socket error", "send failed", "sender dropped",
             "channel closed"}

\* a loop that returns from the task on a socket error
LoopExitReturning(cause) == IF cause = "socket error" THEN "closed" ELSE "left"

\* where the task goes when the loop ends: every arm ends in `break`, and the
\* cleanup follows the loop
LoopExit(cause) == "left"

\* main.rs handle_websocket: the socket loop breaks; the task goes for the
\* write lock of the sender map
DevLeave(d, cause) ==
  /\ dev[d] = "open"
  /\ dev' = [dev EXCEPT ![d] = LoopExit(cause)]
  /\ out' = [NoOut EXCEPT !.handler = "devleave", !.id = d, !.cause = cause]
  /\ UNCHANGED <<store, first, fate, push, registry, devFeature, gw, disc, broadcaster>>

\* main.rs handle_websocket, the cleanup: conn_senders.remove, and the
\* delete_item is sent
DevRemove(d) ==
  /\ dev[d] = "left"
  /\ dev' = [dev EXCEPT ![d] = "closing"]
  /\ out' = NoOut
  /\ UNCHANGED <<store, first, fate, push, registry, devFeature, gw, disc, broadcaster>>

\* the sender map has an entry for d: from the insert before the registry
\* write to the remove of the cleanup
HasSender(d) == d \in DOMAIN dev /\ dev[d] \in {"open", "left"}

\* conn_rx is alive: it is dropped when handle_websocket returns
ReceiverAlive(d) == d \in DOMAIN dev /\ dev[d] \in {"open", "left", "closing"}

\* main.rs handle_websocket, the cleanup: the answer of delete_item, and the
\* task returns
DevClose(d, delOk) ==
  /\ dev[d] = "closing"
  /\ registry' = IF delOk THEN Delete(registry, d) ELSE registry
  /\ dev' = [dev EXCEPT ![d] = "closed"]
  /\ out' = [NoOut EXCEPT !.handler = "devclose", !.id = d,
                          !.store = IF delOk THEN "ok" ELSE "err"]
  /\ UNCHANGED <<store, first, fate, push, devFeature, gw, disc, broadcaster>>

\* ------------------------------------------------------------ broadcaster
\* A stream record: its event name and what its image holds.  image is "ok"
\* (every required field present and well formed), "nodata" (no dynamodb
\* member), "noimage" (no NewImage) or "missing" (a required field absent or
\* malformed).  The for loop takes the records one by one; the model draws
\* each record when the loop takes it.
EventShapes ==
  {[event_name |-> "INSERT", image |-> "ok", room |-> r] : r \in Rooms}
  \cup {[event_name |-> "MODIFY", image |-> "ok", room |-> "general"],
        [event_name |-> "REMOVE", image |-> "nodata", room |-> "general"],
        [event_name |-> "INSERT", image |-> "missing", room |-> "general"],
        [event_name |-> "INSERT", image |-> "noimage", room |-> "general"]}

\* The images of the field extraction, one by one: an image that lacks one
\* required attribute (or holds a ts that is no integer), and an image that
\* lacks one of the two optional attributes, or both ("bare").
Malformed  == {"no room_id", "no id", "no username", "no message_text",
               "no ts", "bad ts"}
Defaulted  == {"no user_id", "no client_message_id", "bare"}

ImageShapes ==
  {[event_name |-> "INSERT", image |-> k, room |-> "general"] :
     k \in {"ok", "nodata", "noimage"} \cup Malformed \cup Defaulted}

\* user_id and client_message_id of the payload before the extraction
NoPayload == [user_id |-> "-", client_message_id |-> "-"]

\* the locals of process_record before it has run
NoEvent ==
  [name |-> "-",                      \* record.event_name
   image |-> "-",                     \* what the record's image held
   payload |-> NoPayload,             \* message_payload: the two optional fields
   room |-> "-",                      \* room_id
   queried |-> FALSE,                 \* whether the room query was sent
   snapshot |-> <<>>,                 \* connections: id -> item, as the query returned
   remaining |-> {},                  \* ids the for loop has not reached yet
   cur |-> NoId,                      \* the connection whose stale item is being deleted
   outcome |-> <<>>,                  \* per visited id, what its iteration did
   sent |-> <<>>,                     \* per visited id, how many pushes were made
   delIssued |-> {},                  \* ids a delete_item was sent for
   pruned |-> {},                     \* ids whose delete_item succeeded
   late |-> {},                       \* ids registered after the query returned
   total_connections |-> 0,
   successful_sends |-> 0,
   emitted |-> <<>>]                  \* the metrics printed, in order

\* ------------------------------------------------------------ strings
\* A string is the sequence of its characters.  Wide is one character that
\* takes two bytes in UTF-8; every other character here takes one.
Wide == "U+00E9"

ByteWidth(ch) == IF ch = Wide THEN 2 ELSE 1

\* str::len(): the length of the string in bytes
ByteLen(s) == Len(s) + Cardinality({i \in 1..Len(s) : ByteWidth(s[i]) = 2})

\* the string of n characters ch
Rep(ch, n) == [i \in 1..n |-> ch]

IsSpace(ch) == ch = " "

RECURSIVE TrimStart(_)
TrimStart(s) == IF s # <<>> /\ IsSpace(Head(s)) THEN TrimStart(Tail(s)) ELSE s

RECURSIVE TrimEnd(_)
TrimEnd(s) ==
  IF s # <<>> /\ IsSpace(s[Len(s)]) THEN TrimEnd(SubSeq(s, 1, Len(s) - 1)) ELSE s

\* str::trim()
Trim(s) == TrimEnd(TrimStart(s))

LowerChar(ch) == IF ch = "R" THEN "r" ELSE ch

\* str::to_lowercase()
ToLowercase(s) == [i \in 1..Len(s) |-> LowerChar(s[i])]

General     == <<"g", "e", "n", "e", "r", "a", "l">>
GeneralName == <<"G", "e", "n", "e", "r", "a", "l">>
OtherRoom   == <<"r">>

\* ------------------------------------------------------------ validation
\* the limits of validate_username and validate_message_text
MaxUsernameLen == 50
MaxTextLen     == 500

\* Ok(value) and Err(message) of a validator
Valid(v)     == [ok |-> TRUE, value |-> v, err |-> "-"]
Invalid(err) == [ok |-> FALSE, value |-> <<>>, err |-> err]

\* a validator without the length limit
validate_username_unbounded(username) ==
  LET trimmed == Trim(username) IN
    IF trimmed = <<>> THEN Invalid("Username cannot be empty") ELSE Valid(trimmed)

validate_username(username) ==
  LET trimmed == Trim(username) IN
    IF trimmed = <<>> THEN Invalid("Username cannot be empty")
    ELSE IF ByteLen(trimmed) > MaxUsernameLen
      THEN Invalid("Username cannot be longer than 50 characters")
    ELSE Valid(trimmed)

validate_message_text(message_text) ==
  LET trimmed == Trim(message_text) IN
    IF trimmed = <<>> THEN Invalid("Message text cannot be empty")
    ELSE IF ByteLen(trimmed) > MaxTextLen
      THEN Invalid("Message text cannot be longer than 500 characters")
    ELSE Valid(trimmed)

validate_room_id(room_id) ==
  LET trimmed == Trim(room_id) IN
    IF trimmed = <<>> THEN Invalid("Room ID cannot be empty")
    ELSE Valid(ToLowercase(trimmed))

\* ------------------------------------------------------------ REST: post
MaxPosters == 2     \* callers of postMessage, one call each
MaxClock   == 1     \* milliseconds the clock may advance

Posters == 1..MaxPosters

\* a SendMessageRequest
Request(room_id, username, message_text, client_message_id) ==
  [room_id |-> room_id, user_id |-> "u1", username |-> username,
   message_text |-> message_text, client_message_id |-> client_message_id]

NoRequest == Request(<<>>, <<>>, <<>>, NoParam)

\* the requests of concurrent first posts: one room under two spellings, and a
\* blank room id
RaceRequests ==
  {Request(OtherRoom, <<"a">>, <<" ", "h", "i">>, NoParam),
   Request(<<" ", "R", " ">>, <<"a">>, <<" ", "h", "i">>, "k1"),
   Request(<<" ">>, <<"a">>, <<" ", "h", "i">>, NoParam)}

NoRoomItem == [id |-> <<>>, name |-> <<>>, created_at |-> 0]

\* the room item ensure_room_exists writes
RoomItem(room_id, now) ==
  [id |-> room_id,
   name |-> IF room_id = General THEN GeneralName ELSE room_id,
   created_at |-> now]

\* a put_item that replaces whatever is stored under the key
PutAlways(tbl, id, item) == [ok |-> TRUE, table |-> Put(tbl, id, item)]

\* put_item under the condition attribute_not_exists(id)
PutIfAbsent(tbl, id, item) ==
  IF id \in DOMAIN tbl
    THEN [ok |-> FALSE, table |-> tbl]
    ELSE [ok |-> TRUE, table |-> Put(tbl, id, item)]

\* an id generator that hands out the id it gave last
NewIdRepeated(n) == n

\* Uuid::new_v4(): an id nobody was given before
NewId(n) == n + 1

\* the locals of a post_message_handler call
NoCall ==
  [pc |-> "idle",
   request |-> NoRequest,
   room_id |-> <<>>, username |-> <<>>, message_text |-> <<>>,   \* validated
   seen |-> "-",                     \* what ensure_room_exists's get_item found
   room_item |-> NoRoomItem,         \* the room item it is about to write
   id |-> 0, now |-> 0,              \* message_id, timestamp_millis
   before |-> {}]                    \* ids of the messages returned before the call

NoMessage ==
  [id |-> 0, room_id |-> <<>>, user_id |-> "-", username |-> <<>>,
   message_text |-> <<>>, created_at |-> 0, client_message_id |-> NoParam]

\* the status of a created message, and the body of rest.rs's error responses
StatusCreated == 201
OpaqueBody    == "Internal server error"

\* the Strings ensure_room_exists and the handlers make of a store error
StoreError      == "DynamoDB error: SdkError"
CreateRoomError == "Failed to create room: SdkError"

NoResponse == [status |-> 0, body |-> "-"]

\* no REST handler ended with the last step
NoAnswer ==
  [handler |-> "-", caller |-> 0,
   result |-> "-",                   \* "ok" | "validation" | "store"
   race |-> "-",                     \* post: "lost" when its conditional write did
   request |-> NoRequest,
   message |-> NoMessage,            \* post: the ChatMessage returned
   before |-> {},
   room |-> <<>>,                    \* get: the validated room id
   messages |-> <<>>,                \* get: the messages returned
   err |-> "-",                      \* the String of the handler's Err
   lambda |-> NoResponse,            \* what lambdas/rest.rs makes of the result
   axum |-> NoResponse]              \* what the server of main.rs makes of it

\* lambdas/rest.rs: the match on the handler's result
LambdaResponse(handler, result, err) ==
  IF result = "ok"
    THEN [status |-> IF handler = "post" THEN StatusCreated ELSE StatusOk,
          body |-> "json"]
    ELSE [status |-> StatusError, body |-> OpaqueBody]

\* main.rs: the match on the handler's result, and AppError::into_response,
\* whose body is {"error": message, "code": 500}
AxumResponse(handler, result, err) ==
  IF result = "ok"
    THEN [status |-> IF handler = "post" THEN StatusCreated ELSE StatusOk,
          body |-> "json"]
    ELSE [status |-> StatusError, body |-> err]

\* the handler's result as each of the two front ends answers it
Served(answer) ==
  [answer EXCEPT
     !.lambda = LambdaResponse(answer.handler, answer.result, answer.err),
     !.axum = AxumResponse(answer.handler, answer.result, answer.err)]

\* the answer of a post_message_handler call that returned Err(err)
PostErr(p, kind, race, err) ==
  Served([NoAnswer EXCEPT !.handler = "post", !.caller = p, !.result = kind,
                          !.race = race, !.err = err,
                          !.request = post[p].request, !.before = post[p].before])

\* the item post_message_handler writes to the messages table
MessageItem(call) ==
  [id |-> call.id, room_id |-> call.room_id, user_id |-> call.request.user_id,
   username |-> call.username, message_text |-> call.message_text,
   ts |-> call.now, client_message_id |-> call.request.client_message_id]

\* the ChatMessage post_message_handler returns
PostedMessage(call) ==
  [id |-> call.id, room_id |-> call.room_id, user_id |-> call.request.user_id,
   username |-> call.username, message_text |-> call.message_text,
   created_at |-> call.now, client_message_id |-> call.request.client_message_id]

\* post_message_handler up to its first await: the three validations
PostValidate(p, request) ==
  /\ post[p].pc = "idle"
  /\ LET room == validate_room_id(request.room_id)
         name == validate_username(request.username)
         text == validate_message_text(request.message_text)
         call == [NoCall EXCEPT !.request = request,
                                !.before = {m.id : m \in messagesTable}]
     IN IF room.ok /\ name.ok /\ text.ok
          THEN /\ post' = [post EXCEPT ![p] =
                     [call EXCEPT !.pc = "lookup", !.room_id = room.value,
                                  !.username = name.value,
                                  !.message_text = text.value]]
               /\ rout' = NoAnswer
          ELSE /\ post' = [post EXCEPT ![p] = [call EXCEPT !.pc = "done"]]
               /\ rout' = Served([NoAnswer EXCEPT
                                    !.handler = "post", !.caller = p,
                                    !.result = "validation",
                                    !.err = IF ~room.ok THEN room.err
                                            ELSE IF ~name.ok THEN name.err
                                            ELSE text.err,
                                    !.request = request,
                                    !.before = call.before])
  /\ UNCHANGED <<sockets, first, roomsTable, messagesTable, clock, nextId>>

\* a call that goes on to the message whether or not its room write succeeded
AfterRoomWriteAlways(ok) == "message"

\* where the call goes when ensure_room_exists's put_item returned
AfterRoomWrite(ok) == IF ok THEN "message" ELSE "done"

\* the locals once ensure_room_exists returned Ok: the id and the time are drawn
Drawn(call) == [call EXCEPT !.pc = "message", !.id = NewId(nextId), !.now = Now(clock)]

\* ensure_room_exists: the answer of its get_item
PostLookup(p, getOk) ==
  /\ post[p].pc = "lookup"
  /\ IF ~getOk
       THEN /\ post' = [post EXCEPT ![p].pc = "done"]
            /\ rout' = PostErr(p, "store", "-", StoreError)
            /\ nextId' = nextId
       ELSE IF post[p].room_id \in DOMAIN roomsTable
         THEN /\ post' = [post EXCEPT ![p] = [Drawn(@) EXCEPT !.seen = "found"]]
              /\ rout' = NoAnswer
              /\ nextId' = NewId(nextId)
         ELSE /\ post' = [post EXCEPT ![p] =
                    [@ EXCEPT !.pc = "room", !.seen = "absent",
                              !.room_item = RoomItem(post[p].room_id, Now(clock))]]
              /\ rout' = NoAnswer
              /\ nextId' = nextId
  /\ UNCHANGED <<sockets, first, roomsTable, messagesTable, clock>>

\* ensure_room_exists: the answer of its conditional put_item
PostCreateRoom(p, putOk) ==
  /\ post[p].pc = "room"
  /\ LET put == IF putOk
                  THEN PutIfAbsent(roomsTable, post[p].room_id, post[p].room_item)
                  ELSE [ok |-> FALSE, table |-> roomsTable]
         lost == putOk /\ post[p].room_id \in DOMAIN roomsTable
     IN /\ roomsTable' = put.table
        /\ IF AfterRoomWrite(put.ok) = "message"
             THEN /\ post' = [post EXCEPT ![p] = Drawn(@)]
                  /\ rout' = NoAnswer
                  /\ nextId' = NewId(nextId)
             ELSE /\ post' = [post EXCEPT ![p].pc = "done"]
                  /\ rout' = PostErr(p, "store", IF lost THEN "lost" ELSE "-",
                                     CreateRoomError)
                  /\ nextId' = nextId
  /\ UNCHANGED <<sockets, first, messagesTable, clock>>

\* a write that keeps one message per room
PutMessageByRoom(tbl, item) == {m \in tbl : m.room_id # item.room_id} \cup {item}

\* the messages table after a put_item: the store is keyed, a message by its
\* id, so the write replaces the item that has the id and leaves the others
PutMessage(tbl, item) == {m \in tbl : m.id # item.id} \cup {item}

\* a handler that takes back the room it created when the message write failed
RoomsRolledBack(tbl, call) ==
  IF call.seen = "absent" THEN Delete(tbl, call.room_id) ELSE tbl

\* the rooms table when the message's put_item failed: map_err and `?` return
\* the error, and nothing is undone
RoomsAfterFailedWrite(tbl, call) == tbl

\* post_message_handler: the answer of the message's put_item, and the return
PostPutMessage(p, putOk) ==
  /\ post[p].pc = "message"
  /\ post' = [post EXCEPT ![p].pc = "done"]
  /\ IF putOk
       THEN /\ messagesTable' = PutMessage(messagesTable, MessageItem(post[p]))
            /\ rout' = Served([NoAnswer EXCEPT
                                 !.handler = "post", !.caller = p,
                                 !.result = "ok",
                                 !.request = post[p].request,
                                 !.message = PostedMessage(post[p]),
                                 !.before = post[p].before])
       ELSE /\ messagesTable' = messagesTable
            /\ rout' = PostErr(p, "store", "-", StoreError)
  /\ roomsTable' = IF putOk THEN roomsTable
                            ELSE RoomsAfterFailedWrite(roomsTable, post[p])
  /\ UNCHANGED <<sockets, first, clock, nextId>>

\* the clock advances
Tick ==
  /\ clock < MaxClock
  /\ clock' = clock + 1
  /\ rout' = NoAnswer
  /\ UNCHANGED <<sockets, first, roomsTable, messagesTable, nextId, post>>

\* ------------------------------------------------------------ REST: get
\* the limit of get_messages_handler's query
PageLimit == 25

\* the order of the room's partition: by timestamp, and by id among equal ones
Earlier(a, b) == a.ts < b.ts \/ (a.ts = b.ts /\ a.id < b.id)

RECURSIVE Ascending(_)
Ascending(items) ==
  IF items = {} THEN <<>>
  ELSE LET m == CHOOSE x \in items : \A y \in items \ {x} : Earlier(x, y)
       IN <<m>> \o Ascending(items \ {m})

\* a query without a limit
PageAll(sorted) == sorted

\* limit(25)
Page(sorted) ==
  SubSeq(sorted, 1, IF Len(sorted) < PageLimit THEN Len(sorted) ELSE PageLimit)

\* a conversion that drops the correlation token
ReadItemBare(item, room_id) ==
  [id |-> item.id, room_id |-> room_id, user_id |-> item.user_id,
   username |-> item.username, message_text |-> item.message_text,
   created_at |-> item.ts, client_message_id |-> NoParam]

\* the ChatMessage get_messages_handler makes of an item
ReadItem(item, room_id) ==
  [id |-> item.id, room_id |-> room_id, user_id |-> item.user_id,
   username |-> item.username, message_text |-> item.message_text,
   created_at |-> item.ts, client_message_id |-> item.client_message_id]

\* the query on the room's partition, oldest first, and its conversion
QueryMessages(tbl, room_id) ==
  LET page == Page(Ascending({m \in tbl : m.room_id = room_id}))
  IN [i \in 1..Len(page) |-> ReadItem(page[i], room_id)]

\* get_messages_handler
GetMessages(room_id, queryOk) ==
  /\ LET room == validate_room_id(room_id) IN
       rout' = Served(
               IF ~room.ok
                 THEN [NoAnswer EXCEPT !.handler = "get", !.result = "validation",
                                       !.err = room.err]
               ELSE IF ~queryOk
                 THEN [NoAnswer EXCEPT !.handler = "get", !.result = "store",
                                       !.room = room.value, !.err = StoreError]
               ELSE [NoAnswer EXCEPT !.handler = "get", !.result = "ok",
                                     !.room = room.value,
                                     !.messages = QueryMessages(messagesTable, room.value)])
  /\ UNCHANGED <<sockets, first, roomsTable, messagesTable, clock, nextId, post>>

\* the room ids getMessages is asked for
AskedRooms == {General, OtherRoom, <<" ", "R">>, <<" ">>}

\* the REST handlers with callers P, requests from `requests` and rooms from `asked`
Rest(P, requests, asked) ==
  \/ \E p \in P, r \in requests : PostValidate(p, r)
  \/ \E p \in P, ok \in BOOLEAN : PostLookup(p, ok)
  \/ \E p \in P, ok \in BOOLEAN : PostCreateRoom(p, ok)
  \/ \E p \in P, ok \in BOOLEAN : PostPutMessage(p, ok)
  \/ \E r \in asked, ok \in BOOLEAN : GetMessages(r, ok)

\* ------------------------------------------------------------ initial states
\* what the first dispatch of a batch left behind: nothing yet
NoFirst ==
  [state |-> "none",
   at |-> 0,                          \* the index of that record in the batch
   outcome |-> <<>>,                  \* per connection, what its push returned
   pruned |-> {},                     \* the ids whose delete_item succeeded
   registry |-> <<>>]                 \* the registry when process_record returned

InitStore ==
  /\ roomsTable = <<>>
  /\ messagesTable = {}
  /\ clock = 0
  /\ nextId = 0
  /\ post = [p \in Posters |-> NoCall]
  /\ rout = NoAnswer

\* nothing has connected and nothing is being dispatched
SocketsIdle ==
  /\ gw = [c \in GwIds |-> "new"]
  /\ disc = [c \in GwIds |-> [pc |-> "idle", lookup |-> "-", room |-> "-"]]
  /\ dev = [d \in DevIds |-> "new"]
  /\ out = NoOut
  /\ bpc = "idle"
  /\ nrecords = 0
  /\ idx = 0
  /\ processed = <<>>
  /\ results = <<>>
  /\ status = 0
  /\ ev = NoEvent
  /\ first = NoFirst
  /\ push = NoPush

InitSockets ==
  /\ registry = <<>>
  /\ devFeature \in BOOLEAN
  /\ fate = NoFate
  /\ SocketsIdle

Init == InitSockets /\ InitStore

\* function_handler is invoked with a batch of n records
Invoke(n) ==
  /\ bpc = "idle"
  /\ nrecords' = n
  /\ idx' = 1
  /\ bpc' = "record"
  /\ processed' = <<>>
  /\ results' = <<>>
  /\ status' = 0
  /\ ev' = NoEvent
  /\ push' = NoPush
  /\ out' = NoOut
  /\ UNCHANGED <<store, first, fate, registry, devFeature, lifecycle>>

\* a test that lets every event but REMOVE through
ActionableUnlessRemove(record) == record.event_name # "REMOVE"

\* only INSERT events are processed
Actionable(record) == record.event_name = "INSERT"

\* an extraction that takes the time of the dispatch for a ts it cannot parse
ImageOkWithoutTimestamp(record) == record.image \in {"ok", "bad ts"} \cup Defaulted

\* whether process_record gets past the extraction of the required fields
ImageOk(record) == record.image \in {"ok"} \cup Defaulted

\* message_payload: user_id falls back to "unknown", client_message_id is
\* left out (NoParam) when the image has none
Payload(record) ==
  [user_id |-> IF record.image \in {"no user_id", "bare"} THEN "unknown" ELSE "u1",
   client_message_id |->
     IF record.image \in {"no client_message_id", "bare"} THEN NoParam ELSE "k1"]

\* the locals once the query returned `items` and the payload was serialized:
\* total_connections is taken and emit_message_sent has printed
Queried(record, items) ==
  [NoEvent EXCEPT !.name = record.event_name,
                  !.image = record.image,
                  !.payload = Payload(record),
                  !.room = record.room,
                  !.queried = TRUE,
                  !.snapshot = items,
                  !.remaining = DOMAIN items,
                  !.total_connections = Cardinality(DOMAIN items),
                  !.emitted = MessageSent(record.room)]

\* the locals when process_record returned before the for loop
Returned(record, sentQuery) ==
  [NoEvent EXCEPT !.name = record.event_name, !.image = record.image,
                  !.payload = IF sentQuery THEN Payload(record) ELSE NoPayload,
                  !.queried = sentQuery]

\* process_record from its entry to the for loop: the event-name test, the field
\* extraction, the room query, the serialization and emit_message_sent
ProcessRecord(record, queryOk, serOk) ==
  /\ bpc = "record"
  /\ processed' = Append(processed, idx)
  /\ IF ~Actionable(record)
       THEN /\ results' = Append(results, "skipped")
            /\ bpc' = "next"
            /\ ev' = Returned(record, FALSE)
       ELSE IF ~ImageOk(record)
         THEN /\ results' = Append(results, "err")
              /\ bpc' = "next"
              /\ ev' = Returned(record, FALSE)
         ELSE IF ~queryOk \/ ~serOk
           THEN /\ results' = Append(results, "err")
                /\ bpc' = "next"
                /\ ev' = Returned(record, TRUE)
           ELSE /\ results' = results
                /\ bpc' = "send"
                /\ ev' = Queried(record, QueryRoom(registry, record.room))
  /\ out' = NoOut
  /\ UNCHANGED <<store, first, fate, push,
               registry, devFeature, lifecycle, nrecords, idx, status>>

\* a loop that takes the attribute as it is
TransportAsStored(item) == item.transport

\* the transport the loop branches on: "apigw" when the attribute is missing
TransportOf(item) == IF item.transport = NoParam THEN "apigw" ELSE item.transport

\* a match whose fallback arm is the gateway's
ArmGatewayByDefault(item) ==
  CASE TransportOf(item) = "dev" /\ devFeature -> "dev"
    [] OTHER -> "apigw"

\* the arm of the match the loop takes for an item
Arm(item) ==
  CASE TransportOf(item) = "apigw" -> "apigw"
    [] TransportOf(item) = "dev" /\ devFeature -> "dev"
    [] OTHER -> "unknown"

\* a loop that posts to an item of the development transport without a target
PushesWithoutTarget(item) == Arm(item) \in {"apigw", "dev"}

\* whether the loop calls the delivery sink for this item
Pushes(item) ==
  \/ Arm(item) = "apigw" /\ item.connection_id # NoId
  \/ Arm(item) = "dev" /\ item.push_url # NoId

\* what the iteration for an item can meet: the sink's answer, or no push at all
PushResults(item) ==
  CASE Arm(item) = "apigw" ->
         IF item.connection_id # NoId THEN {"ok", "gone", "error"} ELSE {"noid"}
    [] Arm(item) = "dev" ->
         IF item.push_url # NoId THEN {"ok", "gone", "status", "error"} ELSE {"nourl"}
    [] OTHER -> {"skipped"}

\* a loop that never deletes an item
IsStaleNever(res) == FALSE

\* a loop that deletes the item on any failed push
IsStaleOnAnyError(res) == res \in {"gone", "error"}

\* whether an answer makes the loop delete the connection's item:
\* GoneException at the gateway, 404 or 410 from the dev push url
IsStale(res) == res = "gone"

\* the loop sends a delete_item for the item: the answer is stale and the item
\* holds the connection_id that is the key of the delete
DeletesItem(item, res) == IsStale(res) /\ item.connection_id # NoId

\* a loop that counts every iteration as a successful send
CountSendAlways(n, res) == n + 1

\* successful_sends after an answer
CountSend(n, res) == IF res = "ok" THEN n + 1 ELSE n

\* a loop that ends at the first stale connection it meets
LoopTargetsUntilStale == IF ev.delIssued = {} THEN ev.remaining ELSE {}

\* the ids the for loop may take next: the snapshot's, each once
LoopTargets == ev.remaining

\* a loop that may take the same connection again
TakenNever(rem, c) == rem

\* `remaining` after the loop took c
Taken(rem, c) == rem \ {c}

\* what the iteration for connection c does with the answer res
Answered(c, res) ==
  LET item == ev.snapshot[c] IN
    /\ ev' = [ev EXCEPT
         !.remaining = Taken(@, c),
         !.outcome = Put(@, c, res),
         !.sent = Put(@, c, (IF c \in DOMAIN @ THEN @[c] ELSE 0)
                              + (IF Pushes(item) THEN 1 ELSE 0)),
         !.successful_sends = CountSend(@, res),
         !.cur = IF DeletesItem(item, res) THEN c ELSE @]
    /\ bpc' = IF DeletesItem(item, res) THEN "prune" ELSE "send"

\* one iteration of the for loop over the connections, up to its push's answer
Deliver(c, res) ==
  /\ bpc = "send"
  /\ c \in LoopTargets
  /\ c \in DOMAIN ev.snapshot
  /\ res \in PushResults(ev.snapshot[c])
  /\ Answered(c, res)
  /\ out' = NoOut
  /\ UNCHANGED <<store, first, fate, push, registry, devFeature, lifecycle, invocation>>

\* an endpoint that answers the two kinds of miss the other way round
PushStatusSwapped(sender, alive) ==
  IF ~sender THEN StatusGone ELSE IF alive THEN StatusOk ELSE StatusNotFound

\* main.rs dev_conn_send_handler: NOT_FOUND when the sender map had no entry,
\* GONE when sender.send failed (the receiver is dropped), OK otherwise
PushStatus(sender, alive) ==
  IF ~sender THEN StatusNotFound ELSE IF alive THEN StatusOk ELSE StatusGone

\* how the loop reads the status of the dev push: success, 404 or 410, other
PushResult(code) ==
  IF code = StatusOk THEN "ok"
  ELSE IF code \in {StatusNotFound, StatusGone} THEN "gone"
  ELSE "status"

\* the loop posts to the push_url of a dev item, and dev_conn_send_handler
\* looks the connection up in the sender map (and clones the sender)
PushLookup(c) ==
  /\ bpc = "send"
  /\ c \in LoopTargets
  /\ c \in DOMAIN ev.snapshot
  /\ Arm(ev.snapshot[c]) = "dev"
  /\ Pushes(ev.snapshot[c])
  /\ LET d == ev.snapshot[c].push_url IN
       push' = [pc |-> "send", id |-> d, conn |-> c, sender |-> HasSender(d),
                socket |-> IF d \in DOMAIN dev THEN dev[d] ELSE "closed",
                status |-> 0]
  /\ bpc' = "push"
  /\ out' = NoOut
  /\ UNCHANGED <<store, first, fate, registry, devFeature, lifecycle, invocation, ev>>

\* dev_conn_send_handler: sender.send returns and the handler answers; the
\* loop reads the status
PushAnswer ==
  /\ bpc = "push"
  /\ push.pc = "send"
  /\ LET code == PushStatus(push.sender, ReceiverAlive(push.id)) IN
       /\ push' = [push EXCEPT !.pc = "idle", !.status = code]
       /\ Answered(push.conn, PushResult(code))
  /\ out' = NoOut
  /\ UNCHANGED <<store, first, fate, registry, devFeature, lifecycle, invocation>>

\* a loop that gives the event up when a delete_item failed
AfterPruneAbort(delOk) == IF delOk THEN "send" ELSE "next"

\* where process_record goes when the delete_item returned: on with the loop
AfterPrune(delOk) == "send"

\* the delete_item for a stale connection; its failure is logged (or dropped)
Prune(delOk) ==
  /\ bpc = "prune"
  /\ registry' = IF delOk THEN Delete(registry, ev.cur) ELSE registry
  /\ ev' = [ev EXCEPT !.delIssued = @ \cup {ev.cur},
                      !.pruned = IF delOk THEN @ \cup {ev.cur} ELSE @,
                      !.cur = NoId]
  /\ bpc' = AfterPrune(delOk)
  /\ results' = IF AfterPrune(delOk) = "send" THEN results ELSE Append(results, "err")
  /\ out' = NoOut
  /\ UNCHANGED <<store, first, fate, push,
               devFeature, lifecycle, nrecords, idx, processed, status>>

\* after the loop: emit_message_broadcast, and process_record returns Ok
EmitBroadcast ==
  /\ bpc = "send"
  /\ LoopTargets = {}
  /\ ev' = [ev EXCEPT !.emitted =
              @ \o MessageBroadcast(ev.room, ev.total_connections, ev.successful_sends)]
  /\ results' = Append(results, "ok")
  /\ bpc' = "next"
  /\ out' = NoOut
  /\ UNCHANGED <<store, first, fate, push,
               registry, devFeature, lifecycle, nrecords, idx, processed, status>>

\* a handler that propagates the first Err of process_record
AfterRecordAbort(result) == IF result = "err" THEN "abort" ELSE "continue"

\* what function_handler does with process_record's result: an Err is logged
AfterRecord(result) == "continue"

\* function_handler's for loop: the next record, or the response
NextRecord ==
  /\ bpc = "next"
  /\ IF AfterRecord(results[Len(results)]) = "continue" /\ idx < nrecords
       THEN /\ idx' = idx + 1
            /\ bpc' = "record"
            /\ status' = status
            /\ ev' = NoEvent
       ELSE /\ idx' = idx
            /\ bpc' = "returned"
            /\ status' = IF AfterRecord(results[Len(results)]) = "continue"
                           THEN StatusOk ELSE StatusError
            /\ ev' = ev
  /\ out' = NoOut
  /\ UNCHANGED <<store, first, fate, push,
               registry, devFeature, lifecycle, nrecords, processed, results>>

\* the invocation is over; the function waits for the next batch
Finish ==
  /\ bpc = "returned"
  /\ bpc' = "idle"
  /\ nrecords' = 0
  /\ idx' = 0
  /\ processed' = <<>>
  /\ results' = <<>>
  /\ status' = 0
  /\ ev' = NoEvent
  /\ push' = NoPush
  /\ out' = NoOut
  /\ UNCHANGED <<store, first, fate, registry, devFeature, lifecycle>>

\* the connect and disconnect handlers of gateway ids G and the socket tasks of
\* dev ids D, with room parameters from `params` and store answers from `oks`
Lifecycle(G, D, params, oks) ==
  \/ \E c \in G, p \in params, ok \in oks : WsConnect(c, p, ok)
  \/ \E c \in G, ok \in oks : WsDisconnectLookup(c, ok)
  \/ \E c \in G, ok \in oks : WsDisconnectDelete(c, ok)
  \/ \E d \in D, p \in params, ok \in oks : DevConnect(d, p, ok)
  \/ \E d \in D, cause \in LoopEnds : DevLeave(d, cause)
  \/ \E d \in D : DevRemove(d)
  \/ \E d \in D, ok \in oks : DevClose(d, ok)

\* the broadcaster on batches of stream records drawn from `shapes`
Broadcast(shapes) ==
  \/ \E n \in 1..MaxBatch : Invoke(n)
  \/ \E r \in shapes, q \in BOOLEAN, s \in BOOLEAN : ProcessRecord(r, q, s)
  \/ \E c \in DOMAIN ev.snapshot : \E r \in PushResults(ev.snapshot[c]) : Deliver(c, r)
  \/ \E ok \in BOOLEAN : Prune(ok)
  \/ EmitBroadcast
  \/ NextRecord
  \/ Finish

\* The whole system: one gateway connection and one development socket come
\* and go, with every store call free to fail, while batches are dispatched.
Next ==
  \/ Lifecycle(LiveGwIds, DevIds, RoomParams, BOOLEAN)
  \/ Broadcast(EventShapes)

Spec == Init /\ [][Next]_vars

\* The fan-out: up to MaxConns gateway connections register in the default
\* room and stay, while batches are dispatched.
FanoutNext ==
  \/ \E c \in GwIds : WsConnect(c, NoQuery, TRUE)
  \/ Broadcast(EventShapes)

SpecFanout == Init /\ [][FanoutNext]_vars

\* the first process_record of the batch that got through its loop has
\* returned: what it did is kept for the dispatches that follow
Remember ==
  /\ bpc = "next"
  /\ first.state = "none"
  /\ results[Len(results)] = "ok"
  /\ first' = [state |-> "done", at |-> idx, outcome |-> ev.outcome,
               pruned |-> ev.pruned, registry |-> registry]
  /\ UNCHANGED <<store, sockets>>

\* a record after the remembered one is being dispatched
Again == first.state = "done" /\ idx > first.at

\* The stream hands the dispatcher one insert more than once: gateway
\* connections register in the default room, then one batch repeats the same
\* insert, and a connection answers a repeated push as it answered the first.
RepeatedInsert == {s \in EventShapes : s = [event_name |-> "INSERT", image |-> "ok", room |-> "general"]}

RedeliverNext ==
  \/ \E c \in GwIds : bpc = "idle" /\ first.state = "none" /\ WsConnect(c, NoQuery, TRUE)
  \/ \E n \in 1..MaxBatch : first.state = "none" /\ Invoke(n)
  \/ \E r \in RepeatedInsert, q \in BOOLEAN, s \in BOOLEAN : ProcessRecord(r, q, s)
  \/ \E c \in DOMAIN ev.snapshot : \E r \in PushResults(ev.snapshot[c]) :
       (Again => r = first.outcome[c]) /\ Deliver(c, r)
  \/ \E ok \in BOOLEAN : Prune(ok)
  \/ EmitBroadcast
  \/ Remember
  \/ /\ bpc = "next"
     /\ results[Len(results)] = "ok" => first.state = "done"
     /\ NextRecord
  \/ Finish

SpecRedeliver == Init /\ [][RedeliverNext]_vars

\* Reconnects: two gateway connections come and go, each in the room its query
\* parameter names, while inserts are dispatched; the store calls of the
\* lifecycle handlers succeed.
ReconnectIds == {<<"gw", 1>>, <<"gw", 2>>}

InsertShapes == {s \in EventShapes : s.event_name = "INSERT" /\ s.image = "ok"}

ReconnectNext ==
  \/ \E c \in ReconnectIds, p \in RoomParams : WsConnect(c, p, TRUE)
  \/ \E c \in ReconnectIds : WsDisconnectLookup(c, TRUE)
  \/ \E c \in ReconnectIds : WsDisconnectDelete(c, TRUE)
  \/ Broadcast(InsertShapes)

SpecReconnect == Init /\ [][ReconnectNext]_vars

\* Concurrent first posts: MaxPosters callers post to a room nobody posted to,
\* every store call free to fail, while the clock advances and the room is read.
RestNext ==
  \/ Rest(Posters, RaceRequests, {OtherRoom})
  \/ Tick

\* the REST handlers are the same in every build
InitRest == Init /\ ~devFeature

SpecRest == InitRest /\ [][RestNext]_vars

\* Requests at the limits of the validators: a field empty, blank, of one
\* character, at its limit and one past it, bare or padded with spaces, made
\* of one-byte or of two-byte characters.
Padded(s) == <<" ">> \o s \o <<" ">>

AtLimit(limit) ==
  {Rep("a", n) : n \in {0, 1, limit, limit + 1}}
  \cup {Rep(Wide, n) : n \in {limit \div 2, limit \div 2 + 1, limit}}

FieldCases(limit) == AtLimit(limit) \cup {Padded(s) : s \in AtLimit(limit)}

BoundaryRequests ==
  {Request(OtherRoom, u, <<"h">>, NoParam) : u \in FieldCases(MaxUsernameLen)}
  \cup {Request(OtherRoom, <<"a">>, t, NoParam) : t \in FieldCases(MaxTextLen)}
  \cup {Request(r, <<"a">>, <<"h">>, "k1") : r \in AskedRooms \cup {<<>>}}

\* One caller posts a request at the limits, and the rooms are read.
ValidateNext ==
  \/ Rest({1}, BoundaryRequests, AskedRooms)
  \/ Tick

SpecValidate == InitRest /\ [][ValidateNext]_vars

\* A store that already holds messages: up to MaxStored of the default room and
\* up to MaxOther of another one, as earlier posts left them.
MaxStored == 26
MaxOther  == 1

SeedItem(i, room_id, ts) ==
  [id |-> i, room_id |-> room_id, user_id |-> "u1", username |-> <<"a">>,
   message_text |-> <<"h", "i">>, ts |-> ts,
   client_message_id |-> IF i % 2 = 0 THEN "k1" ELSE NoParam]

Seeded(n, m) ==
  {SeedItem(j, OtherRoom, 0) : j \in 1..m}
  \cup {SeedItem(m + i, General, i \div 2) : i \in 1..n}

SeededRooms(n, m) ==
  [r \in (IF n > 0 THEN {General} ELSE {}) \cup (IF m > 0 THEN {OtherRoom} ELSE {})
     |-> RoomItem(r, 0)]

InitPage ==
  /\ InitSockets
  /\ ~devFeature
  /\ \E n \in 0..MaxStored, m \in 0..MaxOther :
       /\ messagesTable = Seeded(n, m)
       /\ roomsTable = SeededRooms(n, m)
       /\ clock = n \div 2
       /\ nextId = n + m
  /\ post = [p \in Posters |-> NoCall]
  /\ rout = NoAnswer

PageRequests ==
  {Request(r, <<" ", "a">>, <<"h", " ">>, "k2") : r \in {General, <<" ", "R", " ">>}}

\* One more message is posted to the store, and the rooms are read.
PageNext ==
  \/ Rest({1}, PageRequests, AskedRooms)
  \/ Tick

SpecPage == InitPage /\ [][PageNext]_vars

\* ------------------------------------------------------------ properties
\* the connections of the snapshot, and those whose iteration ended with `res`
\* The order of the loop: every connection's push answer and whether its
\* delete succeeds are fixed from the start, gateway connections register in
\* the default room between dispatches, and the loop takes the connections of
\* its snapshot in any order.
Fates ==
  {[push |-> f, del |-> D] :
     f \in [GwIds -> {"ok", "gone", "error"}], D \in SUBSET GwIds}

InitOrder ==
  /\ registry = <<>>
  /\ devFeature = FALSE
  /\ fate \in Fates
  /\ SocketsIdle
  /\ InitStore

OrderNext ==
  \/ \E c \in GwIds : bpc = "idle" /\ WsConnect(c, NoQuery, TRUE)
  \/ \E n \in 1..MaxBatch : Invoke(n)
  \/ \E r \in RepeatedInsert, q \in BOOLEAN, s \in BOOLEAN : ProcessRecord(r, q, s)
  \/ \E c \in DOMAIN ev.snapshot : Deliver(c, fate.push[c])
  \/ Prune(ev.cur \in fate.del)
  \/ EmitBroadcast
  \/ NextRecord
  \/ Finish

SpecOrder == InitOrder /\ [][OrderNext]_vars

\* Self-healing: a connection is live (every push to it succeeds) or stale
\* (every push to it answers gone) for good, and the deletes succeed.
\* Gateway connections register in the default room at any time while inserts
\* for that room are dispatched; the room query and the serialization may
\* fail.  Fairness: the stream keeps invoking the handler with inserts of the
\* room (messages keep being posted), every await of the dispatcher returns,
\* and the query of a record succeeds again and again.
StaleOrLive ==
  {[push |-> f, del |-> GwIds] : f \in [GwIds -> {"ok", "gone"}]}

InitHeal ==
  /\ registry = <<>>
  /\ devFeature = FALSE
  /\ fate \in StaleOrLive
  /\ SocketsIdle
  /\ InitStore

Dispatched == \E r \in RepeatedInsert : ProcessRecord(r, TRUE, TRUE)

HealNext ==
  \/ \E c \in GwIds : WsConnect(c, NoQuery, TRUE)
  \/ \E n \in 1..MaxBatch : Invoke(n)
  \/ \E r \in RepeatedInsert, q \in BOOLEAN, s \in BOOLEAN : ProcessRecord(r, q, s)
  \/ \E c \in DOMAIN ev.snapshot : Deliver(c, fate.push[c])
  \/ Prune(ev.cur \in fate.del)
  \/ EmitBroadcast
  \/ NextRecord
  \/ Finish

SpecHeal ==
  /\ InitHeal
  /\ [][HealNext]_vars
  /\ WF_vars(\E n \in 1..MaxBatch : Invoke(n))
  /\ SF_vars(Dispatched)
  /\ WF_vars(\E c \in DOMAIN ev.snapshot : Deliver(c, fate.push[c]))
  /\ WF_vars(Prune(ev.cur \in fate.del))
  /\ WF_vars(EmitBroadcast)
  /\ WF_vars(NextRecord)
  /\ WF_vars(Finish)

\* Every operation at once: callers post to one room and read it, a gateway
\* connection comes and goes, and inserts are dispatched in batches of one
\* record; the store calls of the REST handlers and the deletes are free to fail.
MessageRequests == {Request(OtherRoom, <<"a">>, <<"h", "i">>, NoParam)}

MessagesNext ==
  \/ Rest(Posters, MessageRequests, {OtherRoom})
  \/ \E c \in LiveGwIds : WsConnect(c, NoQuery, TRUE)
  \/ \E c \in LiveGwIds : WsDisconnectLookup(c, TRUE)
  \/ \E c \in LiveGwIds, ok \in BOOLEAN : WsDisconnectDelete(c, ok)
  \/ Invoke(1)
  \/ \E r \in RepeatedInsert : ProcessRecord(r, TRUE, TRUE)
  \/ \E c \in DOMAIN ev.snapshot : \E r \in PushResults(ev.snapshot[c]) : Deliver(c, r)
  \/ \E ok \in BOOLEAN : Prune(ok)
  \/ EmitBroadcast
  \/ NextRecord
  \/ Finish

SpecMessages == InitRest /\ [][MessagesNext]_vars

\* Room keys: gateway connections open with a room parameter and stay, callers
\* post with a room parameter, and each stored message reaches the dispatcher
\* as the insert of its item; every store call succeeds.  A parameter is named
\* by a string on the socket side and is a sequence of characters in the
\* validators: Chars gives the characters of a parameter, Named the parameter
\* that has the characters.
KeyParams == {"r", "R", " r "}

Chars(param) ==
  IF param = "r" THEN <<"r">>
  ELSE IF param = "R" THEN <<"R">>
  ELSE <<" ", "r", " ">>

Named(room_id) == CHOOSE param \in KeyParams : Chars(param) = room_id

\* the stream record of a stored message
StreamRecord(item) ==
  [event_name |-> "INSERT", image |-> "ok", room |-> Named(item.room_id)]

RoomKeyNext ==
  \/ \E c \in ReconnectIds, R \in KeyParams :
       bpc = "idle" /\ WsConnect(c, Query(R, "u1", "bob"), TRUE)
  \/ \E p \in Posters, R \in KeyParams :
       PostValidate(p, Request(Chars(R), <<"a">>, <<"h", "i">>, NoParam))
  \/ \E p \in Posters : PostLookup(p, TRUE)
  \/ \E p \in Posters : PostCreateRoom(p, TRUE)
  \/ \E p \in Posters : PostPutMessage(p, TRUE)
  \/ Invoke(1)
  \/ \E m \in messagesTable : ProcessRecord(StreamRecord(m), TRUE, TRUE)
  \/ \E c \in DOMAIN ev.snapshot : Deliver(c, "ok")
  \/ EmitBroadcast
  \/ NextRecord
  \/ Finish

SpecRoomKey == InitRest /\ [][RoomKeyNext]_vars

\* The development server: its socket comes and goes, every store call free
\* to fail, while inserts are dispatched in batches of one record whose dev
\* pushes go to the server's push endpoint.
InitDevServer == registry = <<>> /\ devFeature = TRUE /\ fate = NoFate /\ SocketsIdle /\ InitStore

DevServerNext ==
  \/ \E d \in DevIds, ok \in BOOLEAN : DevConnect(d, NoQuery, ok)
  \/ \E d \in DevIds, cause \in LoopEnds : DevLeave(d, cause)
  \/ \E d \in DevIds : DevRemove(d)
  \/ \E d \in DevIds, ok \in BOOLEAN : DevClose(d, ok)
  \/ Invoke(1)
  \/ \E r \in RepeatedInsert : ProcessRecord(r, TRUE, TRUE)
  \/ \E c \in DOMAIN ev.snapshot : PushLookup(c)
  \/ PushAnswer
  \/ \E ok \in BOOLEAN : Prune(ok)
  \/ EmitBroadcast
  \/ NextRecord
  \/ Finish

SpecDevServer == InitDevServer /\ [][DevServerNext]_vars

\* The development server as it is scheduled: a socket task whose loop has
\* ended gets the write lock of the sender map, and its delete_item returns.
SpecCleanup ==
  /\ InitDevServer
  /\ [][DevServerNext]_vars
  /\ WF_vars(\E d \in DevIds : DevRemove(d))
  /\ WF_vars(\E d \in DevIds, ok \in BOOLEAN : DevClose(d, ok))

\* Items the handlers of this repository did not write: one from before the
\* transport attribute was stored, and one that reaches the loop without a
\* connection_id.  Either, both or none are in the default room from the
\* start; a gateway connection registers, and inserts are dispatched.
LegacyId  == <<"gw", 2>>
UnkeyedId == <<"gw", 3>>

LegacyItem  == [GatewayItem(LegacyId, NoQuery, 0) EXCEPT !.transport = NoParam]
UnkeyedItem == [GatewayItem(UnkeyedId, NoQuery, 0) EXCEPT !.connection_id = NoId]

ForeignItems ==
  {<<>>, Put(<<>>, LegacyId, LegacyItem), Put(<<>>, UnkeyedId, UnkeyedItem),
   Put(Put(<<>>, LegacyId, LegacyItem), UnkeyedId, UnkeyedItem)}

InitForeign ==
  /\ registry \in ForeignItems
  /\ devFeature \in BOOLEAN
  /\ fate = NoFate
  /\ SocketsIdle
  /\ InitStore

ForeignNext ==
  \/ \E c \in LiveGwIds, ok \in BOOLEAN : WsConnect(c, NoQuery, ok)
  \/ Broadcast(InsertShapes)

SpecForeign == InitForeign /\ [][ForeignNext]_vars

\* The development transport: the registry is a table of its own, and the loop
\* reads push_url as an Option, so that an item written by another tool may
\* name the transport "dev" and carry no push_url.  One such item is in the
\* default room from the start, or none; the development socket comes and
\* goes while inserts are dispatched.
ForeignId == <<"dev", 2>>

NoTargetItem == [DevItem(ForeignId, NoQuery, 0) EXCEPT !.push_url = NoId]

InitDevPush ==
  /\ registry \in {<<>>, Put(<<>>, ForeignId, NoTargetItem)}
  /\ devFeature \in BOOLEAN
  /\ gw = [c \in GwIds |-> "new"]
  /\ disc = [c \in GwIds |-> [pc |-> "idle", lookup |-> "-", room |-> "-"]]
  /\ dev = [d \in DevIds |-> "new"]
  /\ out = NoOut
  /\ bpc = "idle"
  /\ nrecords = 0
  /\ idx = 0
  /\ processed = <<>>
  /\ results = <<>>
  /\ status = 0
  /\ ev = NoEvent
  /\ first = NoFirst
  /\ fate = NoFate
  /\ push = NoPush
  /\ InitStore

DevPushNext ==
  \/ \E d \in DevIds, p \in RoomParams, ok \in BOOLEAN : DevConnect(d, p, ok)
  \/ \E d \in DevIds, cause \in LoopEnds : DevLeave(d, cause)
  \/ \E d \in DevIds : DevRemove(d)
  \/ \E d \in DevIds, ok \in BOOLEAN : DevClose(d, ok)
  \/ Broadcast(InsertShapes)

SpecDevPush == InitDevPush /\ [][DevPushNext]_vars

\* The field extraction: gateway connections register in the default room
\* and stay, while inserts with every kind of image are dispatched.
ImagesNext ==
  \/ \E c \in GwIds : WsConnect(c, NoQuery, TRUE)
  \/ Broadcast(ImageShapes)

SpecImages == Init /\ [][ImagesNext]_vars

\* Rejected posts: the callers post a request that passes or one that fails
\* one of the validations, against a store that the accepted posts fill.
RejectRequests ==
  {Request(OtherRoom, <<"a">>, <<"h">>, NoParam),
   Request(<<" ">>, <<"a">>, <<"h">>, NoParam),
   Request(OtherRoom, <<" ">>, <<"h">>, NoParam),
   Request(OtherRoom, Rep("a", MaxUsernameLen + 1), <<"h">>, NoParam),
   Request(OtherRoom, <<"a">>, <<>>, NoParam),
   Request(OtherRoom, <<"a">>, Rep(Wide, MaxTextLen \div 2 + 1), NoParam)}

RejectNext == Rest(Posters, RejectRequests, {OtherRoom})

SpecReject == InitRest /\ [][RejectNext]_vars

\* Connects: one gateway connection and one development socket come and go,
\* with every combination of the three query parameters present or absent
\* and every store call free to fail; the clock shows a time on either side
\* of a full second (times small enough for the checker's integers).
ConnectQueries ==
  {Query(r, u, n) : r \in {NoParam, "r1"}, u \in {NoParam, "u1"}, n \in {NoParam, "bob"}}

ConnectTimes == {0, 1, 999, 1000, 1001, 86399999, 1234567890}

InitConnect ==
  /\ InitSockets
  /\ roomsTable = <<>>
  /\ messagesTable = {}
  /\ clock \in ConnectTimes
  /\ nextId = 0
  /\ post = [p \in Posters |-> NoCall]
  /\ rout = NoAnswer

ConnectNext == Lifecycle(LiveGwIds, DevIds, ConnectQueries, BOOLEAN)

SpecConnect == InitConnect /\ [][ConnectNext]_vars

Snap == DOMAIN ev.snapshot

With(res) == {c \in DOMAIN ev.outcome : ev.outcome[c] = res}

\* the for loop over the connections has ended and process_record returned Ok
LoopDone ==
  /\ bpc \in {"next", "returned"}
  /\ ev.name = "INSERT"
  /\ Len(results) > 0
  /\ results[Len(results)] = "ok"

\* the metrics of one name that the running process_record printed
Emitted(name) == SelectSeq(ev.emitted, LAMBDA m : m.name = name)

Value(name) == Emitted(name)[1].value

\* every connection of the snapshot takes the gateway arm
AllGateway == \A c \in Snap : Arm(ev.snapshot[c]) = "apigw"

\* C1 as stated: when every delivery to the n gateway connections of the
\* snapshot either succeeded or returned gone, the metric reports the n-k
\* successes and the k failures, exactly the k gone items are deleted from the
\* registry and the other n-k are still registered.
C1_Original ==
  (LoopDone /\ AllGateway /\ With("gone") \cup With("ok") = Snap) =>
    /\ Value("BroadcastSuccesses") = Cardinality(With("ok"))
    /\ Value("BroadcastFailures") = Cardinality(With("gone"))
    /\ ev.pruned = With("gone")
    /\ DOMAIN registry \cap Snap = With("ok")

\* C1 amended: when every delivery to the n gateway connections of the
\* snapshot either succeeded or returned gone, the metric reports the n-k
\* successes and the k failures, a delete is sent for exactly the k gone
\* connections, the items whose delete succeeded are gone from the registry
\* and every other item of the snapshot (the n-k delivered ones, and a gone
\* one whose delete failed) is still registered.
C1_FanoutPrunesGone ==
  (LoopDone /\ AllGateway /\ With("gone") \cup With("ok") = Snap) =>
    /\ Value("BroadcastSuccesses") = Cardinality(With("ok"))
    /\ Value("BroadcastFailures") = Cardinality(With("gone"))
    /\ ev.delIssued = With("gone")
    /\ ev.pruned \subseteq With("gone")
    /\ DOMAIN registry \cap Snap = Snap \ ev.pruned

\* three gateway connections, one gone and deleted, two delivered
C1_Witness ==
  /\ LoopDone /\ AllGateway
  /\ Cardinality(Snap) = 3
  /\ Cardinality(With("ok")) = 2
  /\ Cardinality(With("gone")) = 1
  /\ ev.pruned = With("gone")
  /\ Value("BroadcastSuccesses") = 2
  /\ Value("BroadcastFailures") = 1

\* C2: the records of a batch are handed to process_record once each, in batch
\* order, whatever the earlier ones returned, and the invocation answers 200
\* after the last one.
C2_BatchIsolation ==
  /\ processed = [i \in 1..Len(processed) |-> i]
  /\ Len(results) <= Len(processed)
  /\ Len(processed) <= nrecords
  /\ bpc = "returned" =>
       /\ status = StatusOk
       /\ Len(processed) = nrecords
       /\ Len(results) = nrecords
  /\ bpc # "returned" => status = 0

\* the first record failed and the second one was delivered
C2_Witness ==
  /\ bpc = "returned"
  /\ results = <<"err", "ok">>
  /\ ev.successful_sends >= 1
  /\ status = StatusOk

\* C3: a gateway push that fails with another error than gone sends no delete
\* for the connection, whose item stays registered, and the connection is not
\* among the successes of the broadcast metric but among its failures.
C3_TransientErrorKeepsRecord ==
  /\ \A c \in With("error") :
       Arm(ev.snapshot[c]) = "apigw" =>
         /\ c \notin ev.delIssued
         /\ ev.cur # c
         /\ c \in DOMAIN registry
  /\ ev.successful_sends = Cardinality(With("ok"))
  /\ LoopDone =>
       /\ Value("BroadcastSuccesses") = Cardinality(With("ok"))
       /\ Value("BroadcastFailures") = Cardinality(Snap \ With("ok"))

\* one push failed with another error, one was delivered
C3_Witness ==
  /\ LoopDone /\ AllGateway
  /\ With("error") # {}
  /\ With("ok") # {}
  /\ With("error") \subseteq DOMAIN registry
  /\ Value("BroadcastFailures") = Cardinality(With("error"))

\* C4: no broadcast metric is printed while the loop runs, and when the loop
\* has ended exactly one triple is printed: attempts is the number of items
\* the query returned, successes the number of delivered pushes, failures
\* their difference, and 0 <= successes <= attempts.
C4_BroadcastTriple ==
  /\ bpc \in {"send", "prune"} =>
       /\ Len(Emitted("BroadcastAttempts")) = 0
       /\ Len(Emitted("BroadcastSuccesses")) = 0
       /\ Len(Emitted("BroadcastFailures")) = 0
  /\ LoopDone =>
       /\ Len(Emitted("BroadcastAttempts")) = 1
       /\ Len(Emitted("BroadcastSuccesses")) = 1
       /\ Len(Emitted("BroadcastFailures")) = 1
       /\ Value("BroadcastAttempts") = Cardinality(Snap)
       /\ Value("BroadcastSuccesses") = Cardinality(With("ok"))
       /\ Value("BroadcastFailures") =
            Value("BroadcastAttempts") - Value("BroadcastSuccesses")
       /\ 0 <= Value("BroadcastSuccesses")
       /\ Value("BroadcastSuccesses") <= Value("BroadcastAttempts")

\* two connections found, one delivered
C4_Witness ==
  /\ LoopDone
  /\ Value("BroadcastAttempts") = 2
  /\ Value("BroadcastSuccesses") = 1
  /\ Value("BroadcastFailures") = 1

\* an item whose transport the loop does not recognise: neither the gateway's
\* (or none), nor the dev one in a build with the dev feature
Unrecognized(item) ==
  /\ TransportOf(item) # "apigw"
  /\ ~(TransportOf(item) = "dev" /\ devFeature)

Skipped == {c \in DOMAIN ev.outcome : Unrecognized(ev.snapshot[c])}

\* C5 as stated: a connection of unrecognised transport gets no push and no
\* delete, and is counted neither in the attempts nor in the failures of the
\* broadcast metric.
C5_Original ==
  /\ \A c \in Skipped : ev.sent[c] = 0 /\ c \notin ev.delIssued
  /\ LoopDone =>
       /\ Value("BroadcastAttempts") = Cardinality(Snap \ Skipped)
       /\ Value("BroadcastFailures") =
            Cardinality(Snap \ Skipped) - Value("BroadcastSuccesses")

\* C5 amended: a connection of unrecognised transport gets no push and no
\* delete and is never a success; it is counted in the attempts, which are
\* all the items the query returned, and so in the failures.
C5_UnknownTransportSkipped ==
  /\ \A c \in Skipped :
       /\ ev.sent[c] = 0
       /\ c \notin ev.delIssued
       /\ ev.cur # c
       /\ ev.outcome[c] = "skipped"
  /\ LoopDone =>
       /\ Value("BroadcastAttempts") = Cardinality(Snap)
       /\ Value("BroadcastSuccesses") <= Cardinality(Snap \ Skipped)
       /\ Value("BroadcastFailures") >= Cardinality(Skipped)

\* a dev connection met by a build without the dev feature, beside a delivered one
C5_Witness ==
  /\ LoopDone
  /\ Skipped # {}
  /\ With("ok") # {}
  /\ Skipped \subseteq DOMAIN registry
  /\ Value("BroadcastAttempts") = 2
  /\ Value("BroadcastFailures") = 1

\* C6: a process_record pushes only to connections its query returned, at most
\* once to each, and never to one registered after the query returned.
C6_SnapshotOnly ==
  /\ \A c \in DOMAIN ev.sent : c \in Snap /\ ev.sent[c] <= 1
  /\ DOMAIN ev.outcome \cup ev.remaining = Snap
  /\ \A c \in ev.late : c \notin Snap /\ c \notin DOMAIN ev.sent

\* a connection registered in the room after the query, while another was pushed to
C6_Witness ==
  /\ LoopDone
  /\ \E c \in ev.late : c \in DOMAIN registry /\ registry[c].room_id = ev.room
  /\ \E c \in Snap : ev.sent[c] = 1

\* C7: a record whose event name is not INSERT makes process_record return Ok
\* at once: no query, no push, no delete, no metric.
C7_NonInsertIgnored ==
  ev.name \notin {"-", "INSERT"} =>
    /\ bpc \in {"next", "returned"}
    /\ results[Len(results)] = "skipped"
    /\ ~ev.queried
    /\ ev.snapshot = <<>>
    /\ ev.sent = <<>>
    /\ ev.delIssued = {}
    /\ ev.emitted = <<>>

\* a MODIFY record was handled while a connection is registered in its room
C7_Witness ==
  /\ ev.name = "MODIFY"
  /\ bpc = "next"
  /\ \E c \in DOMAIN registry : registry[c].room_id = "general"

\* C8 as stated: a connect answers the caller the same whether its registry
\* write succeeded or failed: the gateway handler answers 200, the dev server
\* serves the socket.
C8_Original ==
  /\ out.handler = "connect" => out.status = StatusOk
  /\ out.handler = "devconnect" => out.accepted

\* C8 amended: the dev server serves the socket whether its registry write
\* succeeded or failed (a failure is only logged, no metric is emitted); the
\* gateway connect handler answers 200 with the connect metric when its write
\* succeeded, and 500 with the ConnectionErrors metric when it failed.
C8_ConnectOutcome ==
  /\ out.handler = "devconnect" =>
       /\ out.accepted
       /\ dev[out.id] = "open"
       /\ out.metric = NoMetric
  /\ out.handler = "connect" =>
       /\ out.store = "ok" =>
            /\ out.status = StatusOk
            /\ out.metric.name = "ConnectionEvents" /\ out.metric.kind = "connect"
       /\ out.store = "err" =>
            /\ out.status = StatusError
            /\ out.metric.name = "ConnectionErrors"
            /\ out.id \notin DOMAIN registry

\* the dev server serves a socket whose registry write failed
C8_Witness ==
  /\ out.handler = "devconnect"
  /\ out.store = "err"
  /\ out.accepted
  /\ out.id \notin DOMAIN registry

\* C9: the disconnect handler answers 200 on every invocation, whatever its
\* lookup and its delete returned.
C9_DisconnectAlwaysOk ==
  out.handler = "disconnect" => out.status = StatusOk

\* a disconnect whose lookup and delete both failed
C9_Witness ==
  /\ out.handler = "disconnect"
  /\ out.lookup = "err"
  /\ out.store = "err"
  /\ out.status = StatusOk

\* the room a disconnect attributes its metric to, by what its lookup returned
AttributedRoom(lookup, room) ==
  IF lookup = "found" THEN room \in Rooms ELSE room = "unknown"

\* C10 as stated: a disconnect sends its delete, answers 200 and emits the
\* disconnect lifecycle metric, attributed to "unknown" when the lookup found
\* no item or failed and to the item's room when it found one.
C10_Original ==
  /\ \A c \in GwIds : disc[c].pc = "delete" =>
       /\ AttributedRoom(disc[c].lookup, disc[c].room)
       /\ (disc[c].lookup = "found" /\ c \in DOMAIN registry) =>
            disc[c].room = registry[c].room_id
  /\ out.handler = "disconnect" =>
       /\ out.store \in {"ok", "err"}
       /\ out.status = StatusOk
       /\ out.metric.name = "ConnectionEvents" /\ out.metric.kind = "disconnect"
       /\ AttributedRoom(out.lookup, out.metric.room)

\* C10 amended: a disconnect sends its delete and answers 200; the metric it
\* emits, the disconnect lifecycle metric when the delete succeeded and the
\* DisconnectionErrors metric when it failed, is attributed to "unknown" when
\* the lookup found no item or failed and to the item's room when it found one.
C10_DisconnectAttribution ==
  /\ \A c \in GwIds : disc[c].pc = "delete" =>
       /\ AttributedRoom(disc[c].lookup, disc[c].room)
       /\ (disc[c].lookup = "found" /\ c \in DOMAIN registry) =>
            disc[c].room = registry[c].room_id
  /\ out.handler = "disconnect" =>
       /\ out.store \in {"ok", "err"}
       /\ out.status = StatusOk
       /\ out.store = "ok" =>
            out.metric.name = "ConnectionEvents" /\ out.metric.kind = "disconnect"
       /\ out.store = "err" => out.metric.name = "DisconnectionErrors"
       /\ AttributedRoom(out.lookup, out.metric.room)

\* a disconnect for an id without an item: deleted anyway, 200, room "unknown"
C10_Witness ==
  /\ out.handler = "disconnect"
  /\ out.lookup = "absent"
  /\ out.store = "ok"
  /\ out.status = StatusOk
  /\ out.metric = ConnectionEvent("disconnect", "unknown")

\* C18: the room of a registered connection never changes while its item is
\* in the registry: no step of the connect and disconnect handlers, of the
\* development server or of the broadcaster rewrites it, and a connect writes
\* the item of an id that has none.
C18_RoomNeverChanges ==
  [][/\ \A c \in DOMAIN registry \cap DOMAIN registry' :
          registry'[c].room_id = registry[c].room_id
     /\ \A c \in DOMAIN registry' \ DOMAIN registry :
          /\ out'.handler \in {"connect", "devconnect"}
          /\ out'.id = c]_vars

\* a connection registered under a new id in another room, and the earlier
\* connection, of the default room, went away with its own room
C18_Witness ==
  /\ out.handler = "disconnect"
  /\ out.id = <<"gw", 1>>
  /\ out.lookup = "found"
  /\ out.metric.room = "general"
  /\ <<"gw", 1>> \notin DOMAIN registry
  /\ <<"gw", 2>> \in DOMAIN registry
  /\ registry[<<"gw", 2>>].room_id = "r1"

\* the step took the item of c, if there was one, out of the registry and
\* left every other item as it was
Removed(c) ==
  /\ DOMAIN registry' = DOMAIN registry \ {c}
  /\ \A x \in DOMAIN registry' : registry'[x] = registry[x]

\* C19: a delete of the disconnect handler, of the development server or of
\* the broadcaster that the store accepted takes the item of its connection
\* out of the registry and leaves every other item as it was, whether or not
\* another writer deleted the item before (then the registry is unchanged);
\* a connection the broadcaster pruned has no item afterwards.
C19_DeleteIdempotent ==
  /\ [](\A c \in ev.pruned : c \notin DOMAIN registry)
  /\ [][/\ (out'.handler \in {"disconnect", "devclose"} /\ out'.store = "ok")
            => Removed(out'.id)
        /\ (bpc = "prune" /\ ev'.pruned # ev.pruned) => Removed(ev.cur)
        /\ (out'.handler = "disconnect" /\ out'.store = "ok"
              /\ out'.id \notin DOMAIN registry) => registry' = registry]_vars

\* the disconnect handler found the item, the broadcaster pruned it first, and
\* the handler's delete of the absent key succeeded beside another's item
C19_Witness ==
  /\ out.handler = "disconnect"
  /\ out.lookup = "found"
  /\ out.store = "ok"
  /\ out.id \in ev.pruned
  /\ out.id \notin DOMAIN registry
  /\ \E d \in DevIds : d \in DOMAIN registry

\* the connections whose push the remembered dispatch saw answered with `res`
FirstWith(res) == {c \in DOMAIN first.outcome : first.outcome[c] = res}

\* a repeated dispatch is in its loop over the connections, or past it
Redispatched == Again /\ (bpc \in {"send", "prune"} \/ LoopDone)

\* C20 as stated: when an insert is dispatched again and every connection
\* answers as before, the registry after the repeated dispatch is the registry
\* the first one left, every connection found is pushed to once, and a
\* connection the first dispatch pruned is not found again.
C20_Original ==
  Redispatched =>
    /\ Snap \cap first.pruned = {}
    /\ \A c \in DOMAIN ev.sent : ev.sent[c] <= 1
    /\ LoopDone =>
         /\ \A c \in Snap : ev.sent[c] = 1
         /\ registry = first.registry

\* C20 amended: when an insert is dispatched again and every connection
\* answers as before, a connection the first dispatch pruned is not found
\* again, every connection found (those the first dispatch left registered) is
\* pushed to once, and a delete is sent only for a gone connection whose
\* delete failed before; the registry after a repeated dispatch is the one
\* the first left without the items so deleted, hence the same registry when
\* every delete of the first dispatch succeeded.
C20_RedeliverySafe ==
  Redispatched =>
    /\ Snap \cap first.pruned = {}
    /\ Snap = DOMAIN registry \cup ev.pruned
    /\ \A c \in DOMAIN ev.sent : ev.sent[c] <= 1
    /\ \A c \in DOMAIN ev.outcome : ev.outcome[c] = first.outcome[c]
    /\ ev.delIssued \subseteq FirstWith("gone") \ first.pruned
    /\ DOMAIN registry \subseteq DOMAIN first.registry
    /\ DOMAIN first.registry \ DOMAIN registry \subseteq FirstWith("gone") \ first.pruned
    /\ \A c \in DOMAIN registry : registry[c] = first.registry[c]
    /\ LoopDone => \A c \in Snap : ev.sent[c] = 1
    /\ first.pruned = FirstWith("gone") =>
         /\ registry = first.registry
         /\ Snap = DOMAIN first.registry
         /\ ev.delIssued = {}

\* the repeated dispatch pushed to the connection the first one delivered to,
\* did not find the one it pruned, and left the registry as it was
C20_Witness ==
  /\ Again /\ LoopDone
  /\ first.pruned # {}
  /\ With("ok") # {}
  /\ Snap = DOMAIN first.outcome \ first.pruned
  /\ registry = first.registry

\* ------------------------------------------------------------ REST properties
\* C11: every message of the messages table names a room that has its item in
\* the rooms table, and a call reaches the message write only when the room's
\* item is there.
C11_MessageRoomExists ==
  /\ \A m \in messagesTable :
       /\ m.room_id \in DOMAIN roomsTable
       /\ roomsTable[m.room_id].id = m.room_id
  /\ \A p \in Posters : post[p].pc = "message" => post[p].room_id \in DOMAIN roomsTable

\* a call found no room, created it and wrote its message
C11_Witness ==
  /\ rout.handler = "post" /\ rout.result = "ok"
  /\ post[rout.caller].seen = "absent"
  /\ roomsTable[rout.message.room_id] = post[rout.caller].room_item
  /\ \E m \in messagesTable : m.id = rout.message.id /\ m.room_id = rout.message.room_id

\* C12: a room item, once written, stays as it was written: whatever calls race
\* to create the room, the item is the first writer's and no later step
\* replaces or removes it.
C12_RoomCreatedOnce ==
  [][\A r \in DOMAIN roomsTable :
       r \in DOMAIN roomsTable' /\ roomsTable'[r] = roomsTable[r]]_vars

\* two calls found the room absent at different times; the item is the winner's
C12_Witness ==
  /\ rout.handler = "post" /\ rout.race = "lost"
  /\ \E p \in Posters \ {rout.caller} :
       /\ post[p].seen = "absent"
       /\ post[p].room_id = post[rout.caller].room_id
       /\ roomsTable[post[p].room_id] = post[p].room_item
       /\ post[rout.caller].room_item # post[p].room_item

\* C13 as stated: a call that found the room absent and whose conditional write
\* lost to another creator still writes its message and returns it.
C13_Original ==
  (rout.handler = "post" /\ rout.race = "lost") =>
    /\ rout.result = "ok"
    /\ \E m \in messagesTable : m.id = rout.message.id

\* the number of characters of a string
CharLen(s) == Len(s)

\* what C14 says a request must satisfy to be accepted
WithinLimits(request) ==
  /\ CharLen(Trim(request.username)) \in 1..MaxUsernameLen
  /\ CharLen(Trim(request.message_text)) \in 1..MaxTextLen
  /\ CharLen(Trim(request.room_id)) >= 1

\* the call got past the validations
Accepted(p) == post[p].room_id # <<>>

\* C14 as stated: a post is accepted exactly when, trimmed, its username has
\* 1..50 characters, its text 1..500 characters and its room id at least one,
\* and a post that returns a message returns the trimmed username and text and
\* the trimmed, lower-cased room id.
C14_Original ==
  /\ \A p \in Posters :
       post[p].pc # "idle" =>
         /\ Accepted(p) <=> WithinLimits(post[p].request)
         /\ (rout.handler = "post" /\ rout.caller = p /\ rout.result = "validation")
              => ~WithinLimits(post[p].request)
  /\ (rout.handler = "post" /\ rout.result = "ok") =>
       /\ rout.message.username = Trim(rout.request.username)
       /\ rout.message.message_text = Trim(rout.request.message_text)
       /\ rout.message.room_id = ToLowercase(Trim(rout.request.room_id))

\* the items of the room a get asked for, and those with fewer than PageLimit
\* items of the room before them
InRoom == {m \in messagesTable : m.room_id = rout.room}

Oldest == {m \in InRoom : Cardinality({x \in InRoom : Earlier(x, m)}) < PageLimit}

GotIds == {rout.messages[i].id : i \in 1..Len(rout.messages)}

ReadBack(m) ==
  \E i \in 1..Len(rout.messages) :
    /\ rout.messages[i].id = m.id
    /\ rout.messages[i].username = m.username
    /\ rout.messages[i].message_text = m.message_text
    /\ rout.messages[i].client_message_id = m.client_message_id

\* the item a post wrote has the values of the message it returned
StoredAsReturned ==
  (rout.handler = "post" /\ rout.result = "ok") =>
    \E m \in messagesTable :
      /\ m.id = rout.message.id
      /\ m.room_id = rout.message.room_id
      /\ m.username = rout.message.username
      /\ m.message_text = rout.message.message_text
      /\ m.client_message_id = rout.message.client_message_id

C17_UniqueIdsMonotoneTime ==
  /\ \A m1, m2 \in messagesTable : m1.id = m2.id => m1 = m2
  /\ (rout.handler = "post" /\ rout.result = "ok") =>
       /\ rout.message.id \notin rout.before
       /\ \A m \in messagesTable :
            (m.id \in rout.before /\ m.room_id = rout.message.room_id) =>
              m.ts <= rout.message.created_at

\* a call returned after another one to the same room had, a millisecond later
C17_Witness ==
  /\ rout.handler = "post" /\ rout.result = "ok"
  /\ \E m \in messagesTable :
       /\ m.id \in rout.before
       /\ m.id # rout.message.id
       /\ m.room_id = rout.message.room_id
       /\ m.ts < rout.message.created_at

\* ------------------------------------------------------------ C21
\* C21 as the text has it: whichever front end serves the request, a failed
\* postMessage or getMessages is answered with status 500 and one and the same
\* opaque body, with nothing of the validation or store error in it
C21_Original ==
  (rout.handler \in {"post", "get"} /\ rout.result # "ok") =>
    /\ rout.lambda = [status |-> StatusError, body |-> OpaqueBody]
    /\ rout.axum.status = StatusError
    /\ rout.axum.body = OpaqueBody
    /\ rout.axum.body # rout.err

\* ------------------------------------------------------------ C22
\* the connections of the snapshot whose item names the development transport
DevTransport == {c \in Snap : TransportOf(ev.snapshot[c]) = "dev"}

\* the loop is running or has ended
InLoop == bpc \in {"send", "push", "prune"} \/ LoopDone

\* C22 as the text has it: for a connection of the development transport a
\* 2xx answer counts as a success, a 404 or 410 answer deletes the
\* connection's item, and every other outcome deletes nothing
C22_Original ==
  LoopDone =>
    /\ ev.successful_sends = Cardinality(With("ok"))
    /\ \A c \in DevTransport \cap With("gone") : c \notin DOMAIN registry
    /\ \A c \in DevTransport \ With("gone") : c \notin ev.delIssued

\* C22, amended: in a build with the dev feature, an item of the development
\* transport with a push target gets one post, a 2xx answer is the only
\* outcome counted as a success, a 404 or 410 answer sends one delete for the
\* item, which is gone when that delete succeeded, and any other status, a
\* transport error or a missing push target sends no delete and counts as a
\* failure; in a build without the feature the item gets no post at all.
C22_DevPush ==
  InLoop =>
    /\ ev.successful_sends = Cardinality(With("ok"))
    /\ \A c \in DevTransport \cap DOMAIN ev.outcome :
         LET item == ev.snapshot[c]
             res == ev.outcome[c]
         IN /\ ~devFeature => res = "skipped" /\ ev.sent[c] = 0
            /\ devFeature /\ item.push_url = NoId => res = "nourl" /\ ev.sent[c] = 0
            /\ devFeature /\ item.push_url # NoId =>
                 res \in {"ok", "gone", "status", "error"} /\ ev.sent[c] = 1
            /\ res = "gone" <=> (c \in ev.delIssued \/ (bpc = "prune" /\ ev.cur = c))
            /\ c \in ev.pruned => res = "gone" /\ c \notin DOMAIN registry

\* a dispatch in the dev build met a 410 whose delete succeeded, another status
\* and an item without a push target
C22_Witness ==
  /\ LoopDone
  /\ devFeature
  /\ \E c \in DevTransport : ev.outcome[c] = "gone" /\ c \in ev.pruned
  /\ \E c \in DevTransport : ev.outcome[c] = "nourl" /\ c \in DOMAIN registry

\* ------------------------------------------------------------ C23
\* the connections whose delete_item was sent and failed
DeleteFailed == ev.delIssued \ ev.pruned

\* C23: a failed delete of a gone connection's item does not fail the dispatch:
\* the loop goes on to every connection left, the broadcast metrics are printed
\* once, process_record returns Ok, and the item is still in the registry.
C23_DeleteFailureTolerated ==
  DeleteFailed # {} =>
    /\ DeleteFailed \subseteq DOMAIN registry
    /\ bpc \in {"send", "prune"} => ev.remaining = Snap \ DOMAIN ev.outcome
    /\ bpc \in {"next", "returned"} =>
         /\ LoopDone
         /\ DOMAIN ev.outcome = Snap
         /\ \A c \in Snap : ev.sent[c] = 1
         /\ Len(Emitted("BroadcastAttempts")) = 1
         /\ Value("BroadcastAttempts") = Cardinality(Snap)
    /\ bpc = "returned" => status = StatusOk

\* a dispatch to three connections has ended: the first gone one's delete
\* failed, and the others were delivered to all the same
C23_Witness ==
  /\ LoopDone
  /\ Cardinality(Snap) = MaxConns
  /\ Cardinality(DeleteFailed) = 1
  /\ Cardinality(With("ok")) = MaxConns - 1

\* ------------------------------------------------------------ C24
\* process_record has returned: the record's dispatch is over
RecordOver == bpc \in {"next", "returned"} /\ Len(results) > 0

\* C24: an insert whose image is absent, or whose image lacks room_id, id,
\* username, message_text or ts or holds a ts that is no integer, fails alone
\* and before the room query: nothing is delivered, deleted or printed as a
\* metric.  An image that lacks user_id is dispatched with "unknown", one that
\* lacks client_message_id is dispatched without it, and neither fails.
C24_MalformedImageFails ==
  /\ (ev.name = "INSERT" /\ ev.image \in {"nodata", "noimage"} \cup Malformed) =>
       /\ RecordOver
       /\ results[Len(results)] = "err"
       /\ ~ev.queried
       /\ Snap = {} /\ ev.outcome = <<>> /\ ev.sent = <<>>
       /\ ev.delIssued = {}
       /\ ev.emitted = <<>>
  /\ (ev.name = "INSERT" /\ ev.image \in Defaulted) =>
       /\ ev.queried
       /\ ev.image \in {"no user_id", "bare"} <=> ev.payload.user_id = "unknown"
       /\ ev.image \in {"no client_message_id", "bare"}
            <=> ev.payload.client_message_id = NoParam
       /\ RecordOver /\ results[Len(results)] = "err" => Snap = {}
  /\ (RecordOver /\ bpc = "returned") => status = StatusOk

\* an insert without a ts failed with two connections registered, after the
\* insert before it in the batch was dispatched
C24_Witness ==
  /\ RecordOver
  /\ ev.image = "no ts"
  /\ Cardinality(DOMAIN registry) >= 2
  /\ results = <<"ok", "err">>

\* ------------------------------------------------------------ C25
\* the names of the metrics printed, in the order of printing
EmittedNames == [i \in 1..Len(ev.emitted) |-> ev.emitted[i].name]

SentNames      == <<"MessagesPosted", "MessageLength">>
BroadcastNames == <<"BroadcastAttempts", "BroadcastSuccesses", "BroadcastFailures">>

\* C25 as the text has it: the message metric and the broadcast triple are
\* both printed after all deliveries of the event, each once
C25_Original ==
  /\ bpc \in {"send", "prune"} => ev.emitted = <<>>
  /\ LoopDone => EmittedNames = SentNames \o BroadcastNames

\* C25, amended: for each dispatched insert the message metric is printed
\* once before the first delivery attempt and the broadcast triple once after
\* the last; nothing else is printed for the event.
C25_MetricOrder ==
  /\ [](/\ bpc \in {"send", "prune"} => EmittedNames = SentNames
        /\ LoopDone => /\ EmittedNames = SentNames \o BroadcastNames
                        /\ DOMAIN ev.outcome = Snap
                        /\ \A i \in 1..Len(ev.emitted) : ev.emitted[i].room = ev.room)
  /\ [][/\ (ev.emitted = <<>> /\ ev'.emitted # <<>>) =>
             (ev'.emitted = MessageSent(ev'.room) /\ ev'.outcome = <<>>)
        /\ (ev.emitted # <<>> /\ ev'.emitted # ev.emitted /\ ev'.emitted # <<>>) =>
             (ev.remaining = {} /\ DOMAIN ev.outcome = Snap
              /\ Len(ev'.emitted) = Len(ev.emitted) + 3)]_vars

\* the message metric is out and no delivery was attempted yet, with three
\* connections in the snapshot
C25_Witness ==
  /\ bpc = "send"
  /\ Cardinality(Snap) = MaxConns
  /\ ev.outcome = <<>>
  /\ EmittedNames = SentNames

\* ------------------------------------------------------------ C26
\* a request with a blank room id, a blank or oversized username or a blank
\* or oversized text, the sizes in bytes after trimming
Rejectable(request) ==
  \/ Trim(request.room_id) = <<>>
  \/ Trim(request.username) = <<>>
  \/ ByteLen(Trim(request.username)) > MaxUsernameLen
  \/ Trim(request.message_text) = <<>>
  \/ ByteLen(Trim(request.message_text)) > MaxTextLen

\* C26: a postMessage that fails validation leaves the store as it was: the
\* call ends at once with a validation error, reads and writes no room item
\* and writes no message.
C26_RejectedLeavesStore ==
  /\ [](\A p \in Posters :
          (post[p].pc # "idle" /\ Rejectable(post[p].request)) =>
            /\ post[p].pc = "done"
            /\ post[p].seen = "-"
            /\ post[p].room_item = NoRoomItem
            /\ post[p].id = 0
            /\ \A m \in messagesTable : m.id # post[p].id)
  /\ [][(rout'.handler = "post" /\ Rejectable(rout'.request)) =>
          /\ rout'.result = "validation"
          /\ roomsTable' = roomsTable
          /\ messagesTable' = messagesTable
          /\ nextId' = nextId]_vars

\* a post with an oversized username was rejected while the store held a room
\* and a message
C26_Witness ==
  /\ rout.handler = "post"
  /\ rout.result = "validation"
  /\ rout.err = "Username cannot be longer than 50 characters"
  /\ messagesTable # {}
  /\ DOMAIN roomsTable # {}

\* ------------------------------------------------------------ C27
\* the handler that ended with the last step wrote its item
Wrote(handler) == out.handler = handler /\ out.store = "ok"

\* what a parameter of the last connect's query makes of a placeholder
Given(p, placeholder) == IF p = NoParam THEN placeholder ELSE p

\* C27 as the text has it: the item holds the caller's room or "general", the
\* caller's identity or the placeholder of its path ("anon" at the gateway,
\* "dev-user" at the development server) for userId and username alike, and
\* the transport of its path
C27_Original ==
  /\ Wrote("connect") =>
       /\ registry[out.id].user_id = Given(out.query.userId, "anon")
       /\ registry[out.id].username = Given(out.query.username, "anon")
       /\ registry[out.id].transport = "apigw"
  /\ Wrote("devconnect") =>
       /\ registry[out.id].user_id = Given(out.query.userId, "dev-user")
       /\ registry[out.id].username = Given(out.query.username, "dev-user")
       /\ registry[out.id].transport = "dev"

\* C27, amended: the item holds the caller's room or "general"; at the gateway
\* a missing userId and a missing username both become "anon" and the
\* transport is "apigw", without a push target; at the development server a
\* missing userId becomes "dev-user", a missing username "Developer", the
\* transport is "dev" and the push target names the item's own connection id.
C27_ConnectItem ==
  /\ Wrote("connect") =>
       /\ registry[out.id].room_id = Given(out.query.room_id, "general")
       /\ registry[out.id].user_id = Given(out.query.userId, "anon")
       /\ registry[out.id].username = Given(out.query.username, "anon")
       /\ registry[out.id].transport = "apigw"
       /\ registry[out.id].push_url = NoId
  /\ Wrote("devconnect") =>
       /\ registry[out.id].room_id = Given(out.query.room_id, "general")
       /\ registry[out.id].user_id = Given(out.query.userId, "dev-user")
       /\ registry[out.id].username = Given(out.query.username, "Developer")
       /\ registry[out.id].transport = "dev"
       /\ registry[out.id].push_url = out.id
  /\ \A c \in DOMAIN registry :
       registry[c].transport = (IF c \in GwIds THEN "apigw" ELSE "dev")

\* the development server registered a socket that named its user and no
\* username, next to a gateway connection without any parameter
C27_Witness ==
  /\ Wrote("devconnect")
  /\ out.query = Query(NoParam, "u1", NoParam)
  /\ registry[out.id].username = "Developer"
  /\ \E c \in LiveGwIds : c \in DOMAIN registry /\ registry[c].username = "anon"

\* ------------------------------------------------------------ C28
\* C28: on both paths the item's expiry, in seconds, is the whole seconds of
\* its connect time plus 86400: connected_at is the clock of the connect, and
\* ttl - 86400 is the one integer q with q * 1000 <= connected_at < (q + 1) * 1000.
C28_ExpiresAt ==
  \A c \in DOMAIN registry :
    LET item == registry[c]
        q == item.ttl - DaySeconds
    IN /\ item.connected_at = clock
       /\ q * MsPerSecond <= item.connected_at
       /\ item.connected_at < (q + 1) * MsPerSecond

\* a gateway item and a development item written one millisecond before a
\* full day: both expire at second 86399 + 86400
C28_Witness ==
  /\ \E c \in GwIds, d \in DevIds :
       /\ {c, d} \subseteq DOMAIN registry
       /\ registry[c].connected_at = 86399999 /\ registry[c].ttl = 172799
       /\ registry[d].connected_at = 86399999 /\ registry[d].ttl = 172799

\* ------------------------------------------------------------ C29
\* C29 as the text has it: every disconnect prints one "disconnect" lifecycle
\* metric, whether its delete succeeded or failed
C29_Original ==
  out.handler = "disconnect" =>
    /\ out.metric.name = "ConnectionEvents"
    /\ out.metric.kind = "disconnect"

\* C29, amended: every gateway disconnect prints exactly one metric: the
\* "disconnect" lifecycle metric when its delete succeeded, and the
\* DisconnectionErrors error metric, without any lifecycle metric, when its
\* delete failed.  The development server prints no metric when a socket closes.
C29_DisconnectMetric ==
  /\ out.handler = "disconnect" =>
       /\ out.metric # NoMetric
       /\ out.store = "ok" <=> (/\ out.metric.name = "ConnectionEvents"
                                /\ out.metric.kind = "disconnect")
       /\ out.store = "err" <=> (/\ out.metric.name = "DisconnectionErrors"
                                 /\ out.metric.kind = "DatabaseError")
  /\ out.handler = "devclose" => out.metric = NoMetric

\* a disconnect found its item and failed to delete it: the error metric is
\* the only one
C29_Witness ==
  /\ out.handler = "disconnect"
  /\ out.lookup = "found"
  /\ out.store = "err"
  /\ out.id \in DOMAIN registry
  /\ out.metric.name = "DisconnectionErrors"

\* ------------------------------------------------------------ C30
\* C30 as the text has it: at the gateway and at the development server
\* alike, a connect whose write succeeded prints one "connect" lifecycle
\* metric for its room, and one whose write failed prints an error metric
C30_Original ==
  /\ (Wrote("connect") \/ Wrote("devconnect")) =>
       out.metric = ConnectionEvent("connect", registry[out.id].room_id)
  /\ (out.handler \in {"connect", "devconnect"} /\ out.store = "err") =>
       /\ out.metric.kind = "DatabaseError"
       /\ out.metric.name = "ConnectionErrors"

\* C30, amended: a gateway connect whose write succeeded prints exactly one
\* "connect" lifecycle metric for the room of its item; one whose write failed
\* prints the ConnectionErrors metric for that room and no lifecycle metric.
\* The development server prints no metric for a connect, whether its write
\* succeeded or failed.
C30_ConnectMetric ==
  /\ Wrote("connect") =>
       out.metric = ConnectionEvent("connect", registry[out.id].room_id)
  /\ (out.handler = "connect" /\ out.store = "err") =>
       /\ out.metric = ErrorCount("ConnectionErrors", Given(out.query.room_id, "general"))
       /\ out.metric.kind # "connect"
  /\ out.handler = "devconnect" => out.metric = NoMetric

\* a gateway connect to room r1 printed its metric, with a development socket
\* registered in r1 before it
C30_Witness ==
  /\ Wrote("connect")
  /\ out.metric = ConnectionEvent("connect", "r1")
  /\ \E d \in DevIds : d \in DOMAIN registry /\ registry[d].room_id = "r1"

\* ------------------------------------------------------------ C31
\* the connections of the snapshot whose push is fixed to answer res
Fated(res) == {c \in Snap : fate.push[c] = res}

\* C31: with the snapshot and every connection's answers fixed, what a
\* dispatch reports and what it deletes are functions of the snapshot and the
\* answers alone, whatever the order the loop took the connections in.
C31_OrderIndependent ==
  LoopDone =>
    /\ Value("BroadcastAttempts") = Cardinality(Snap)
    /\ Value("BroadcastSuccesses") = Cardinality(Fated("ok"))
    /\ Value("BroadcastFailures") = Cardinality(Snap) - Cardinality(Fated("ok"))
    /\ ev.delIssued = Fated("gone")
    /\ ev.pruned = Fated("gone") \cap fate.del
    /\ DOMAIN registry \cap Snap = Snap \ (Fated("gone") \cap fate.del)

\* of three connections the loop took the last first: it was gone and its
\* delete succeeded, and the two before it are still to come
C31_Witness ==
  /\ bpc = "send"
  /\ Cardinality(Snap) = MaxConns
  /\ DOMAIN ev.outcome = {<<"gw", MaxConns>>}
  /\ ev.pruned = {<<"gw", MaxConns>>}
  /\ \E c \in Snap : fate.push[c] = "ok"

\* ------------------------------------------------------------ C32
\* the connections every push to which answers gone
Stale == {c \in GwIds : fate.push[c] = "gone"}

\* C32: with the deletes succeeding, a dispatch that has a stale connection
\* in its snapshot leaves the registry without it; a connection that is out
\* of the registry and of the running dispatch's snapshot is in no later
\* snapshot, so that no later dispatch pushes to it; and as long as inserts of
\* the room keep being dispatched, a registered stale connection is
\* eventually removed.
C32_SelfHeals ==
  /\ [](LoopDone => /\ Snap \cap Stale \cap DOMAIN registry = {}
                     /\ \A c \in Snap : ev.sent[c] = 1)
  /\ [][\A c \in GwIds :
          (gw[c] = "done" /\ c \notin DOMAIN registry /\ c \notin Snap) =>
            (c \notin DOMAIN registry' /\ c \notin DOMAIN ev'.snapshot)]_vars
  /\ \A c \in GwIds :
       (c \in DOMAIN registry /\ c \in Stale) ~> (c \notin DOMAIN registry)

\* a dispatch to a stale and a live connection has ended: the stale one is
\* out of the registry, the live one is in it
C32_Witness ==
  /\ LoopDone
  /\ \E c \in Snap \cap Stale : c \in ev.pruned /\ c \notin DOMAIN registry
  /\ \E c \in Snap \ Stale : c \in DOMAIN registry

\* a postMessage call returns its message
PostReturns(p) == post[p].pc = "message" /\ post'[p].pc = "done" /\ rout'.result = "ok"

C34_Original ==
  \A c \in DOMAIN registry, p \in Posters :
    \A m \in {x \in messagesTable : x.id = post[p].id} :
      (post[p].pc = "done" /\ post[p].request.room_id = Chars(registry[c].room_id)) =>
        /\ registry[c].room_id = Named(m.room_id)
        /\ (InLoop /\ ev.room = Named(m.room_id)) => c \in Snap

\* C35: once the connect and the disconnect handler of one gateway connection
\* have both returned, their store calls having succeeded, the registry holds
\* no record of the connection, however the write of the one interleaves with
\* the lookup and the delete of the other.
C35_Original ==
  \A c \in ReconnectIds :
    (gw[c] = "done" /\ disc[c].pc = "done") => c \notin DOMAIN registry

\* a step taken while a batch is being dispatched that is no handler's return
Dispatching == bpc # "idle" /\ out'.handler = "-"

\* C36: a dispatch changes the store only by deleting connection records: it
\* leaves every room and message as it is, creates and rewrites no connection
\* record, and a record it deletes was in its snapshot, is of the room of the
\* dispatched message, and had a delivery that reported staleness.
C36_DispatchFrame ==
  [][Dispatching =>
       /\ roomsTable' = roomsTable
       /\ messagesTable' = messagesTable
       /\ \A c \in DOMAIN registry' : c \in DOMAIN registry /\ registry'[c] = registry[c]
       /\ \A c \in DOMAIN registry \ DOMAIN registry' :
            /\ c \in Snap
            /\ registry[c].room_id = ev.room
            /\ ev.outcome[c] = "gone"]_vars

\* a dispatch has deleted a stale record of its room while a connection of
\* another room is registered
C36_Witness ==
  /\ LoopDone
  /\ \E c \in ev.pruned : c \notin DOMAIN registry
  /\ \E d \in DOMAIN registry : registry[d].room_id # ev.room

\* the call of p has just returned the error of its message write, having
\* created the room itself
WriteFailedAfterCreate(p) ==
  /\ rout.handler = "post" /\ rout.caller = p /\ rout.result = "store"
  /\ post[p].seen = "absent"
  /\ post[p].id # 0

\* C37: postMessage has no rollback: when it found the room absent and created
\* it, and the message write then fails, the call returns the store's error,
\* no message of the call is stored, and the room it created remains.
C37_NoRollback ==
  \A p \in Posters :
    WriteFailedAfterCreate(p) =>
      /\ rout.err = StoreError
      /\ rout.lambda.status = StatusError
      /\ \A m \in messagesTable : m.id # post[p].id
      /\ post[p].room_id \in DOMAIN roomsTable
      /\ roomsTable[post[p].room_id] = post[p].room_item

\* a call created its room and failed to write its message, and no message is
\* stored in that room
C37_Witness ==
  \E p \in Posters :
    /\ WriteFailedAfterCreate(p)
    /\ \A m \in messagesTable : m.room_id # post[p].room_id

\* the push endpoint has answered the dispatch
Pushed == push.pc = "idle" /\ push.conn # NoId

\* C38 as stated: a dispatch to a dev connection whose socket has closed gets
\* 404 or 410 from the push endpoint and prunes the registry record.
C38_Original ==
  (Pushed /\ push.socket # "open") =>
    /\ push.status \in {StatusNotFound, StatusGone}
    /\ LoopDone => push.conn \notin DOMAIN registry

\* C38: the push endpoint answers 404 exactly when the sender map had no entry
\* at its lookup, 410 when it had one and the receiver is dropped at the
\* send, and 200 otherwise; the entry is there until the cleanup removes it
\* and the receiver until the socket task returns, so a dispatch that arrives
\* after the task returned gets 404, one that arrives after the socket loop
\* ended and before the removal gets 200 or 410, and after 404 or 410 the
\* loop sends one delete for the record, which is gone if that delete succeeds.
C38_PushEndpoint ==
  /\ [](Pushed =>
          /\ push.status = StatusNotFound <=> ~push.sender
          /\ push.status = StatusNotFound <=> push.socket \in {"new", "closing", "closed"}
          /\ push.status = StatusGone => push.socket \in {"open", "left"} /\ dev[push.id] = "closed"
          /\ push.status = StatusOk => push.socket \in {"open", "left"}
          /\ push.status \in {StatusNotFound, StatusGone, StatusOk}
          /\ push.conn \in DOMAIN ev.outcome
          /\ ev.outcome[push.conn] = IF push.status = StatusOk THEN "ok" ELSE "gone"
          /\ (push.status # StatusOk /\ bpc # "prune") => push.conn \in ev.delIssued
          /\ push.conn \in ev.pruned => push.conn \notin DOMAIN registry)
  /\ [][(bpc = "push" /\ bpc' # "push") =>
          push'.status = IF ~push.sender THEN StatusNotFound
                         ELSE IF dev[push.id] = "closed" THEN StatusGone
                         ELSE StatusOk]_vars

\* the endpoint answered 410 for a socket whose task has returned, and the
\* loop has deleted the record
C38_Witness ==
  /\ Pushed /\ LoopDone
  /\ push.status = StatusGone
  /\ push.conn \in ev.pruned

\* the socket task of d sends its delete_item with this step (and returns)
SendsDelete(d) == out'.handler = "devclose" /\ out'.id = d

\* C39: in the development server the socket loop, however it ends, is
\* followed by the cleanup: the task returns only after it removed the sender
\* entry and sent one delete for its connection id, it sends no other delete,
\* the delete comes after the registry write, and when the delete fails the
\* task returns all the same and the registry is as it was.
C39_Cleanup ==
  /\ \A d \in DevIds : (dev[d] = "left") ~> (dev[d] = "closed" /\ ~HasSender(d))
  /\ [][\A d \in DevIds :
          /\ (dev[d] # "closed" /\ dev'[d] = "closed") =>
               (SendsDelete(d) /\ dev[d] = "closing" /\ ~HasSender(d))
          /\ SendsDelete(d) => (dev[d] = "closing" /\ dev'[d] = "closed")
          /\ dev[d] = "closed" => dev'[d] = "closed"
          /\ (SendsDelete(d) /\ out'.store = "err") => registry' = registry
          /\ (SendsDelete(d) /\ out'.store = "ok") => d \notin DOMAIN registry'
          /\ dev[d] = "new" => ~SendsDelete(d)]_vars
  /\ [](\A d \in DevIds : dev[d] = "new" => d \notin DOMAIN registry)

\* the socket task returned after a delete that failed, its record still in
\* the registry
C39_Witness ==
  \E d \in DevIds :
    /\ dev[d] = "closed"
    /\ out.handler = "devclose" /\ out.id = d /\ out.store = "err"
    /\ d \in DOMAIN registry

\* the items of the snapshot without a transport attribute, and the gateway
\* items without a connection id
Untagged == {c \in Snap : ev.snapshot[c].transport = NoParam}
Unkeyed  == {c \in Snap : /\ ev.snapshot[c].transport \in {NoParam, "apigw"}
                          /\ ev.snapshot[c].connection_id = NoId}

\* C40: the loop takes an item without a transport attribute through the
\* gateway arm, in either build; a gateway item without a connection id gets
\* no post and no delete, is in the attempts of the broadcast metric and not
\* in the successes.
C40_MissingAttributes ==
  /\ \A c \in Untagged \cap DOMAIN ev.outcome :
       /\ ev.outcome[c] \in {"ok", "gone", "error", "noid"}
       /\ ev.snapshot[c].connection_id # NoId =>
            /\ ev.sent[c] = 1
            /\ ev.outcome[c] # "noid"
            /\ ev.outcome[c] = "gone" => (ev.cur = c \/ c \in ev.delIssued)
  /\ \A c \in Unkeyed \cap DOMAIN ev.outcome :
       /\ ev.outcome[c] = "noid"
       /\ ev.sent[c] = 0
       /\ c \notin ev.delIssued
       /\ ev.cur # c
       /\ c \in DOMAIN registry
  /\ LoopDone =>
       /\ Value("BroadcastAttempts") = Cardinality(Snap)
       /\ Value("BroadcastSuccesses") <= Cardinality(Snap \ Unkeyed)
       /\ Value("BroadcastFailures") >= Cardinality(Unkeyed)

\* a dispatch met both items beside a delivered connection: the untagged one
\* was posted to and found gone, the unkeyed one was passed over
C40_Witness ==
  /\ LoopDone
  /\ \E c \in Untagged : ev.outcome[c] = "gone" /\ c \in ev.pruned
  /\ Unkeyed # {}
  /\ Value("BroadcastAttempts") = 3
  /\ Value("BroadcastSuccesses") = 1
  /\ Value("BroadcastFailures") = 2

====
